---- MODULE Spec2Model ----
(***************************************************************************)
(* Annotation / calibration data model of the OCR annotation tool.         *)
(*                                                                         *)
(* The model covers one uploaded folder with the images of ImageNames:     *)
(*   - the durable folder record written by StorageManager.saveFolder,     *)
(*   - the dashboard page (DashboardManager) holding its own copy of the   *)
(*     folder, running OCR, reprocessing and exporting,                    *)
(*   - the calibration page (CalibrationApp) holding the annotation Map,   *)
(*     the folderData object, the canvas scale and the text list.          *)
(* Both pages share the durable store and may be alive at the same time    *)
(* (two tabs, or a dashboard page restored from the back/forward cache).   *)
(*                                                                         *)
(* A JavaScript Map entry or object property that may be missing is an     *)
(* option: None (missing / undefined / null) or Some(v).                   *)
(***************************************************************************)
EXTENDS Integers, Sequences, FiniteSets, TLC

(* ------------------------------ bounds -------------------------------- *)

\* Date.now() returns values from 0 to MaxClock.
MaxClock == 1

\* The user keeps at most MaxManual annotations of his own in the session.
MaxManual == 1

(* --------------------------- fixed test data --------------------------- *)

\* folder.imageFiles, in order; name is the join key.
ImageNames == <<"a", "b">>

ImgSet == {ImageNames[i] : i \in 1..Len(ImageNames)}

\* Natural size <<width, height>> of each image.
ImageSize == [a |-> <<40, 40>>, b |-> <<10, 10>>]

\* Images whose stored data may be damaged: loading one of them into the
\* canvas may fail (img.onerror), the others always load.
Unreadable == {"a"}

\* Size <<width, height>> of the element that contains the canvas.
ContainerSize == <<60, 60>>

\* What one OCR call can return for each image: the recognised texts in
\* order.  The empty result also stands for a failed call, which is stored
\* as an empty words_result.  Image "b" is a blank page.
OcrOutcomes == [a |-> { <<>>, <<"ni">> }, b |-> { <<>> }]

\* Values typed into a text box.
TextValues == {"ok"}

\* Mouse positions <<x, y>> where a drag may start / end on the canvas.
DragStarts == { <<0, 0>> }

DragEnds == { <<10, 10>>, <<4, 12>> }

\* Name given to the folder at upload.
UploadName == "F"

(* ------------------------------ options -------------------------------- *)

None == <<>>

Some(v) == <<v>>

IsSome(o) == o # <<>>

Get(o) == o[1]

\* JavaScript undefined for a string-valued property.
Undefined == "undefined"

\* The default folder name of saveAllAnnotations.
DefaultFolderName == "unnamed"

Truthy(s) == s # Undefined /\ s # ""

(* ------------------------------ helpers -------------------------------- *)

Min2(x, y) == IF x <= y THEN x ELSE y

Max2(x, y) == IF x >= y THEN x ELSE y

Abs(x) == IF x >= 0 THEN x ELSE -x

\* Math.round(p / q) for p >= 0, q > 0.
Round(p, q) == (2 * p + q) \div (2 * q)

\* Smaller of two non-negative rationals <<numerator, denominator>>.
RatMin(r, s) == IF r[1] * s[2] <= s[1] * r[2] THEN r ELSE s

RECURSIVE SumChars(_)
\* annotations.reduce((sum, ann) => sum + ann.text.length, 0)
SumChars(list) ==
    IF list = <<>> THEN 0 ELSE Len(Head(list).text) + SumChars(Tail(list))

RECURSIVE Filter(_, _)
\* annotations.filter(ann => ann.id !== annotationId)
Filter(list, annotationId) ==
    IF list = <<>> THEN <<>>
    ELSE IF Head(list).id # annotationId
         THEN <<Head(list)>> \o Filter(Tail(list), annotationId)
         ELSE Filter(Tail(list), annotationId)

\* Number of the user's own annotations in a list.
ManualCount(list) == Cardinality({i \in 1..Len(list) : list[i].isManual})

\* Number of the user's own annotations in the whole Map.
ManualTotal(map) ==
    LET RECURSIVE Sum(_)
        Sum(S) == IF S = {} THEN 0
                  ELSE LET img == CHOOSE x \in S : TRUE
                       IN  (IF IsSome(map[img]) THEN ManualCount(Get(map[img])) ELSE 0)
                           + Sum(S \ {img})
    IN  Sum(ImgSet)

\* Object.keys(map).length for a map over the image names.
KeyCount(map) == Cardinality({img \in ImgSet : IsSome(map[img])})

EmptyMap == [img \in ImgSet |-> None]

(* ------------------------------ state ---------------------------------- *)

VARIABLES
    now,                \* the value Date.now() returned when it was last read
    db,                 \* the folder record in the IndexedDB store 'folders'
    dash,               \* DashboardManager.folders entry of the folder
    dashPc,             \* "idle", or "reprocess" between the two saves of reprocessFolder
    exported,           \* the document of the last export download (None: no export yet)
    open,               \* a calibration page is open
    folderData,         \* CalibrationApp.state.folderData
    annotations,        \* CalibrationApp.state.annotations (Map imageName -> list)
    aliased,            \* images whose folderData.annotations[img].textRegions IS the Map's array
    currentImageIndex,  \* CalibrationApp.state.currentImageIndex (1-based here)
    imageInfo,          \* CalibrationApp.imageInfo
    drawingState,       \* CalibrationApp.drawingState: None, or Some(start point) while drawing
    hasChanges,         \* CalibrationApp.state.hasChanges
    textCount,          \* elements.textCount.textContent
    charCount,          \* elements.charCount.textContent
    domImg,             \* image whose annotation objects the text list shows (None: no item)
    seeded              \* history: images whose OCR result has been converted into annotations

dashVars == <<dash, dashPc, exported>>

appVars == <<open, folderData, annotations, aliased, currentImageIndex, imageInfo,
             drawingState, hasChanges, textCount, charCount, domImg>>

appAll == <<now, db, dashVars, appVars, seeded>>

\* State of the chunked persistence layer (OptimizedStorageManager, database
\* 'OCRAnnotationTool_v2') and of the callers that use it.
VARIABLES
    metaStore,          \* object store 'folders' of the chunked layer: None, or Some(record of folder 1)
    imageChunks,        \* object store 'imageChunks': a set of chunk records
    annotationStore,    \* object store 'annotations': the record data of `1_<imageName>` per image
    memoryCache,        \* OptimizedStorageManager.memoryCache entry of key 'folder_1'
    held,               \* the folder object the caller passed to the last completed saveFolder
    got,                \* what the last call into the chunked layer returned
    saver,              \* the processBatchImages calls in flight
    lastSaved           \* history: payload of image "a" whose save completed last; None once a later save began

optVars == <<metaStore, imageChunks, annotationStore, memoryCache, held, got, saver, lastSaved>>

\* The legacy single-page tool (OCRAnnotationTool) working on the same
\* database 'OCRAnnotationTool' as the dashboard.
VARIABLES
    legacy,             \* OCRAnnotationTool.state: currentFolder, ocrResults, annotations
    extra,              \* the records of store 'folders' with keys 2, 3, ... in key order
    dbDeleted           \* the record of key 1 has been deleted from store 'folders'

legacyVars == <<legacy, extra>>

\* The batch operations of APIManager and the worker pool of BatchProcessor.
VARIABLES
    summary,            \* what the last batch operation of APIManager returned (None: none called)
    request,            \* the list of files handed to that operation and how the OCR call of each ends
    taskStatus,         \* status of the batch task: "none", "running", "completed"
    rebuiltFiles,       \* the images of the task whose stored data can be rebuilt into a File
    queue,              \* the job queue of processBatchQueue
    workers,            \* per worker: where it is, its job and the number of the attempt
    attempts,           \* history: per job, how each of its attempts ended
    waits,              \* history: per job, the sleeps of executeJobWithRetry in order
    successful,         \* results.successful
    failed              \* results.failed

apiVars == <<summary, request>>

poolVars == <<taskStatus, rebuiltFiles, queue, workers, attempts, waits, successful, failed>>

batchVars == <<apiVars, poolVars>>

\* CanvasManager and the rectangles handed to its conversions.
VARIABLES
    rectangle,          \* the rectangle a caller hands to the conversions
    canvasInfo,         \* CanvasManager.imageInfo (None: no image loaded)
    converted           \* what the conversions returned for it (None: not called)

canvasVars == <<rectangle, canvasInfo, converted>>

\* A response of the OCR service and what APIManager makes of it.
VARIABLES
    response,           \* the raw items of a response of the OCR service
    normalized          \* what processPaddleOCRResponse returned for it (None: not called)

responseVars == <<response, normalized>>

\* The chunked layer with several folders: its stores 'folders' and
\* 'annotations' and its memoryCache as a Map of several keys.
VARIABLES
    folderRecords,      \* object store 'folders': the record of each folder id, or None
    annotationRecords,  \* object store 'annotations': the annotations object stored per folder id
    cacheMap,           \* memoryCache: its entries [key, value] in the insertion order of the Map
    recency,            \* history: the keys of cacheMap by last use (hit read or write), oldest first
    returned            \* what the last call returned

cacheVars == <<folderRecords, annotationRecords, cacheMap, recency, returned>>

\* The store requests of the calibration page that have not settled.
VARIABLES
    pending             \* the requests in the order they were made: the record and what follows

asyncVars == <<pending>>

\* The 'folders' object store as StorageManager's backup operations see it.
VARIABLES
    folderStore,        \* the records, the most recently saved first (getAllFolders' order)
    keyGenerator,       \* the store's key generator (autoIncrement)
    exportedDoc,        \* the folders of the last document exportAllData returned
    importResults       \* what importData returned, when the step was an importData

backupVars == <<folderStore, keyGenerator, exportedDoc, importResults>>

\* The variables no handler of the pages, the legacy tool, the batch
\* classes or the canvas touches.
laterVars == <<cacheVars, asyncVars, backupVars>>

\* The chunked layer, the legacy tool and the deleted flag.
layerVars == <<optVars, legacyVars, dbDeleted>>

\* What the handlers of the dashboard and of the calibration page leave alone.
otherVars == <<layerVars, batchVars, canvasVars, responseVars, laterVars>>

vars == <<appAll, optVars, legacyVars, dbDeleted, batchVars, canvasVars,
          responseVars, laterVars>>

(* --------------------------- StorageManager ---------------------------- *)

\* The record saveFolder builds from a folder object.  The record has no
\* 'name' property: its folderName is the object's name.
FolderRecord(folder) ==
    [ id |-> folder.id,
      name |-> Undefined,
      folderName |-> folder.name,
      status |-> IF Truthy(folder.status) THEN folder.status ELSE "unprocessed",
      imageFiles |-> folder.imageFiles,
      ocrResults |-> folder.ocrResults,
      annotations |-> folder.annotations,
      metadata |-> [ totalImages |-> Len(folder.imageFiles),
                     processedImages |-> KeyCount(folder.ocrResults),
                     calibratedImages |-> KeyCount(folder.annotations) ] ]

\* store.put of saveFolder: the record replaces the stored one when the
\* request succeeds; a failed request leaves the store as it was.
saveFolder(folder, ok) == IF ok THEN FolderRecord(folder) ELSE db

\* The folder object uploadFolder passes to saveFolder, with the id the
\* store assigns.
UploadedFolder ==
    [ id |-> 1,
      name |-> UploadName,
      folderName |-> Undefined,
      status |-> "unprocessed",
      imageFiles |-> ImageNames,
      ocrResults |-> EmptyMap,
      annotations |-> EmptyMap,
      metadata |-> [totalImages |-> 0, processedImages |-> 0, calibratedImages |-> 0] ]

(* ----------------------------- APIManager ------------------------------ *)

\* The location the OCR service reports for the word at 'index' (0-based),
\* already converted by convertBboxToLocation.
OcrLocation(index) == [left |-> 10 + 50 * index, top |-> 10, width |-> 40, height |-> 20]

\* processPaddleOCRResponse at time t: one word per recognised text, each
\* with id Date.now() + index.
processPaddleOCRResponse(texts, t) ==
    [ words_result |->
        [ i \in 1..Len(texts) |->
            [ id |-> t + (i - 1),
              text |-> texts[i],
              words |-> texts[i],
              location |-> OcrLocation(i - 1) ] ] ]

(* ------------------- CalibrationApp: pure helpers ---------------------- *)

\* this.state.annotations.get(imageName) || []
ListOf(map, img) == IF IsSome(map[img]) THEN Get(map[img]) ELSE <<>>

CurrentFileName == ImageNames[currentImageIndex]

\* Margin loadImageToCanvas leaves around the image.
CanvasMargin == 40

\* Smallest width and height of a drawn box that handleMouseUp accepts.
MinBoxSize == 10

\* imageInfo computed by img.onload of loadImageToCanvas; the scale
\* min(scaleX, scaleY, 1) is kept as a rational <<numerator, denominator>>.
loadImageToCanvas(img) ==
    LET w == ImageSize[img][1]
        h == ImageSize[img][2]
        scaleX == <<ContainerSize[1] - CanvasMargin, w>>
        scaleY == <<ContainerSize[2] - CanvasMargin, h>>
    IN  [ originalWidth |-> w,
          originalHeight |-> h,
          scale |-> RatMin(RatMin(scaleX, scaleY), <<1, 1>>) ]

calculateRegion(start, end) ==
    [ left |-> Min2(start[1], end[1]),
      top |-> Min2(start[2], end[2]),
      width |-> Abs(end[1] - start[1]),
      height |-> Abs(end[2] - start[2]) ]

\* The two values a division by zero gives in JavaScript, kept apart from
\* every finite coordinate: v / 0 is Infinity for v > 0 and 0 / 0 is NaN.
\* Math.round returns both as they are.
Infinity == 1000000000

NaN == 0 - 1000000000

\* Math.round(p / q) for p >= 0 and q >= 0.
RoundQuotient(p, q) ==
    IF q # 0 THEN Round(p, q) ELSE IF p = 0 THEN NaN ELSE Infinity

\* Math.round(v / scale) for every component; the input itself when there
\* is no imageInfo.  The same code is in CanvasManager and CalibrationApp.
displayToOriginalCoords(displayRegion, info) ==
    IF ~IsSome(info) THEN displayRegion
    ELSE LET n == Get(info).scale[1]
             d == Get(info).scale[2]
         IN  [ left |-> RoundQuotient(displayRegion.left * d, n),
               top |-> RoundQuotient(displayRegion.top * d, n),
               width |-> RoundQuotient(displayRegion.width * d, n),
               height |-> RoundQuotient(displayRegion.height * d, n) ]

\* CanvasManager.originalToDisplayCoords: Math.round(v * scale) for every
\* component; the input itself when there is no imageInfo.
originalToDisplayCoords(originalRegion, info) ==
    IF ~IsSome(info) THEN originalRegion
    ELSE LET n == Get(info).scale[1]
             d == Get(info).scale[2]
         IN  [ left |-> Round(originalRegion.left * n, d),
               top |-> Round(originalRegion.top * n, d),
               width |-> Round(originalRegion.width * n, d),
               height |-> Round(originalRegion.height * n, d) ]

\* The components of the rectangles handed to the conversions are at most
\* MaxCoord.
MaxCoord == 4

RegionInputs ==
    [left : 0..MaxCoord, top : 0..MaxCoord, width : 0..MaxCoord, height : 0..MaxCoord]

\* The scales min(scaleX, scaleY, 1) can give: 1 for an image that fits,
\* a fraction for a larger image, and 0 when the container is exactly as
\* wide as the margin.
ScaleInputs == { <<1, 1>>, <<2, 3>>, <<1, 2>>, <<1, 4>>, <<0, 1>> }

\* The imageInfo of a canvas: none before an image is loaded.
InfoInputs ==
    {None} \cup {Some([originalWidth |-> 40, originalHeight |-> 40, scale |-> s]) :
                    s \in ScaleInputs}

\* Nothing has been converted; the canvas has imageInfo info and the caller
\* holds rectangle r.
CanvasInitWith(r, info) ==
    /\ rectangle = r
    /\ canvasInfo = info
    /\ converted = [toDisplay |-> None, toOriginal |-> None, roundTrip |-> None]

CanvasInit == CanvasInitWith([left |-> 0, top |-> 0, width |-> 0, height |-> 0], None)

\* The region of addNewTextItem.
DefaultRegion == [left |-> 50, top |-> 50, width |-> 100, height |-> 30]

\* The map callback of loadImageAnnotations at time t.  Every word of the
\* OCR pipeline carries a rectangle location (convertBboxToLocation), so the
\* location is taken as it is.
SeedFromOcr(words, t) ==
    [ i \in 1..Len(words) |->
        [ id |-> t + (i - 1),
          text |-> IF words[i].text # "" THEN words[i].text ELSE words[i].words,
          region |-> words[i].location,
          isManual |-> FALSE ] ]

\* The condition under which loadImageAnnotations converts the OCR result.
SeedsFromOcr(anns, ocrResults, imageName) ==
    /\ Len(ListOf(anns, imageName)) = 0
    /\ IsSome(ocrResults[imageName])
    /\ Len(Get(ocrResults[imageName]).words_result) > 0

\* What displayTextItems(list) leaves on the page for image img.
Displayed(list, img) ==
    [ textCount |-> Len(list),
      charCount |-> SumChars(list),
      domImg |-> IF Len(list) = 0 THEN None ELSE Some(img) ]

\* A variant of updateTextStats that keeps the numbers already on the page.
updateTextStatsKept(anns, img) ==
    [ textCount |-> textCount, charCount |-> charCount ]

\* updateTextStats() without arguments: recomputed from the Map.
updateTextStats(anns, img) ==
    [ textCount |-> Len(ListOf(anns, img)), charCount |-> SumChars(ListOf(anns, img)) ]

\* loadImageAnnotations(imageName) at time t, from the Map anns and the
\* alias set al: the new Map, the new alias set, the page, and whether the
\* OCR result was converted.
loadImageAnnotations(anns, al, ocrResults, imageName, t) ==
    LET seeds == SeedsFromOcr(anns, ocrResults, imageName)
        list == IF seeds THEN SeedFromOcr(Get(ocrResults[imageName]).words_result, t)
                ELSE ListOf(anns, imageName)
    IN  [ annotations |-> IF seeds THEN [anns EXCEPT ![imageName] = Some(list)] ELSE anns,
          aliased |-> IF seeds THEN al \ {imageName} ELSE al,
          page |-> Displayed(list, imageName),
          seeds |-> seeds ]

\* loadCurrentImage() for the image at index idx.  loaded = FALSE is the
\* path where loadImageToCanvas rejects (img.onerror) or no URL can be
\* built: the placeholder is shown and nothing else changes.
loadCurrentImage(loaded, idx, anns, al, ocrResults, t) ==
    LET imageName == ImageNames[idx]
        r == loadImageAnnotations(anns, al, ocrResults, imageName, t)
    IN  IF loaded
        THEN [ annotations |-> r.annotations,
               aliased |-> r.aliased,
               imageInfo |-> Some(loadImageToCanvas(imageName)),
               textCount |-> r.page.textCount,
               charCount |-> r.page.charCount,
               domImg |-> r.page.domImg,
               seeds |-> r.seeds ]
        ELSE [ annotations |-> anns,
               aliased |-> al,
               imageInfo |-> imageInfo,
               textCount |-> textCount,
               charCount |-> charCount,
               domImg |-> domImg,
               seeds |-> FALSE ]

\* The annotation objects bound to the items of the text list.
DomList == IF IsSome(domImg) THEN ListOf(annotations, Get(domImg)) ELSE <<>>

\* The entry saveCurrentAnnotations / saveAllAnnotations store for an image.
AnnotationEntry(img, list) == [imageName |-> img, textRegions |-> list]

\* saveAllAnnotations up to the write: the folder object with its names
\* made equal and its annotations rebuilt from the Map for every image.
saveAllFolder(folder, anns) ==
    LET finalName == IF ~Truthy(folder.name) /\ ~Truthy(folder.folderName)
                     THEN DefaultFolderName
                     ELSE IF Truthy(folder.name) THEN folder.name ELSE folder.folderName
    IN  [ folder EXCEPT
            !.name = finalName,
            !.folderName = finalName,
            !.annotations = [img \in ImgSet |-> Some(AnnotationEntry(img, ListOf(anns, img)))] ]

\* After saveAllAnnotations the entry of every image that has a list in the
\* Map holds that very array; the others hold a fresh [].
saveAllAliased(anns) == {img \in ImgSet : IsSome(anns[img])}

\* saveCurrentAnnotations up to the write: only the current image's entry
\* is replaced.
saveCurrentFolder(folder, anns, img) ==
    [folder EXCEPT !.annotations[img] = Some(AnnotationEntry(img, ListOf(anns, img)))]

\* The input handler's search in ocrResults: the first word whose id equals
\* the annotation's id gets the typed value as text and words.
SyncOcrWord(ocrResults, img, annotationId, value) ==
    IF ~IsSome(ocrResults[img]) THEN ocrResults
    ELSE LET words == Get(ocrResults[img]).words_result
             hits == {i \in 1..Len(words) : words[i].id = annotationId}
         IN  IF hits = {} THEN ocrResults
             ELSE LET k == CHOOSE i \in hits : \A j \in hits : i <= j
                  IN  [ocrResults EXCEPT ![img] =
                          Some([Get(@) EXCEPT !.words_result[k].text = value,
                                              !.words_result[k].words = value])]

(* --------------------- DashboardManager: export ------------------------ *)

\* item.text || item.words || ''
WordText(item) == IF item.text # "" THEN item.text ELSE item.words

RECURSIVE JoinTexts(_)
\* textRegions.map(r => r.text || '').join(' '), as the sequence of the
\* joined pieces
JoinTexts(list) ==
    IF list = <<>> THEN <<>>
    ELSE IF Len(list) = 1 THEN <<Head(list).text>>
    ELSE <<Head(list).text, " ">> \o JoinTexts(Tail(list))

RECURSIVE Trim(_)
\* String.prototype.trim on a sequence of pieces: the empty pieces and the
\* separators at both ends are dropped.
Trim(pieces) ==
    IF pieces = <<>> THEN <<>>
    ELSE IF Head(pieces) \in {"", " "} THEN Trim(Tail(pieces))
    ELSE IF pieces[Len(pieces)] \in {"", " "} THEN Trim(SubSeq(pieces, 1, Len(pieces) - 1))
    ELSE pieces

\* The imageData processExportData builds for one image of the folder.
ExportImage(folder, imageName) ==
    LET ocr == folder.ocrResults[imageName]
        words == IF IsSome(ocr) THEN Get(ocr).words_result ELSE <<>>
        originalOCR ==
            IF IsSome(ocr)
            THEN Some([textRegions |->
                        [i \in 1..Len(words) |->
                            [text |-> WordText(words[i]), position |-> words[i].location]]])
            ELSE None
        ann == folder.annotations[imageName]
        textRegions == IF IsSome(ann) THEN Get(ann).textRegions ELSE <<>>
        originalCount == Len(words)
        calibratedCount == Len(textRegions)
        manualIdx == {i \in 1..Len(textRegions) : textRegions[i].isManual}
        manualCount == Cardinality(manualIdx)
        ocrTexts == [i \in 1..Len(words) |-> WordText(words[i])]
        machineTexts == LET idx == {i \in 1..Len(textRegions) : ~textRegions[i].isManual}
                            nth(k) == CHOOSE i \in idx : Cardinality({j \in idx : j <= i}) = k
                        IN  [k \in 1..Cardinality(idx) |-> textRegions[nth(k)].text]
    IN  [ originalOCR |-> originalOCR,
          calibratedText |->
              IF IsSome(ann)
              THEN Some([ textRegions |->
                            [i \in 1..Len(textRegions) |->
                                [ text |-> textRegions[i].text,
                                  position |-> textRegions[i].region,
                                  isManuallyAdded |-> textRegions[i].isManual ]],
                          fullText |-> Trim(JoinTexts(textRegions)) ])
              ELSE None,
          modifications |->
              IF IsSome(ann)
              THEN [ textChanged |-> \/ originalCount # calibratedCount
                                     \/ ~IsSome(ocr)
                                     \/ ocrTexts # machineTexts,
                     annotationsAdded |-> manualCount,
                     annotationsDeleted |->
                         Max2(0, originalCount - (calibratedCount - manualCount)),
                     totalEdits |-> Abs(originalCount - calibratedCount) + manualCount ]
              ELSE [ textChanged |-> FALSE,
                     annotationsAdded |-> 0,
                     annotationsDeleted |-> 0,
                     totalEdits |-> 0 ] ]

\* The value processExportData(folder) returns.
processExportData(folder) ==
    [ folderInfo |-> [ name |-> folder.folderName,
                       status |-> folder.status,
                       totalImages |-> folder.metadata.totalImages ],
      images |-> [img \in ImgSet |-> ExportImage(folder, img)] ]

\* A variant of processExportData that marks the folder it has exported.
processExportDataFolderMarked(folder) == [folder EXCEPT !.status = "exported"]

\* The folder object as processExportData leaves it: the function reads
\* folder.folderName, status, metadata, imageFiles, ocrResults and
\* annotations and assigns to none of them.
processExportDataFolder(folder) == folder

(* ---------------- OptimizedStorageManager: pure helpers ---------------- *)

\* config.chunkSize, scaled down from 1024 * 1024 characters.
chunkSize == 2

\* The payload lengths of the chunk round trip.
PayloadLengths == {0, 1, chunkSize - 1, chunkSize, chunkSize + 1, 10 * chunkSize}

\* A dataURL of n characters; the character at position i of the payload
\* tagged tag is <<tag, i>>, so payloads of different saves differ everywhere.
Payload(tag, n) == [i \in 1..n |-> <<tag, i>>]

\* The id the chunked layer's 'folders' store assigns to the folder.
FolderId == 1

\* Math.ceil(n / c)
Ceil(n, c) == (n + c - 1) \div c

\* dataURL.slice(start, end) with 0-based start and exclusive end
Slice(s, start, end) == SubSeq(s, start + 1, Min2(end, Len(s)))

\* The chunk records the loop of saveImageInChunks adds for one image.
ChunkRecords(folderId, image, imageIndex) ==
    LET totalChunks == Ceil(Len(image.dataURL), chunkSize)
    IN  { [ id |-> <<folderId, image.name, chunkIndex>>,
            folderId |-> folderId,
            imageName |-> image.name,
            imageIndex |-> imageIndex,
            chunkIndex |-> chunkIndex,
            totalChunks |-> totalChunks,
            data |-> Slice(image.dataURL, chunkIndex * chunkSize,
                           Min2(chunkIndex * chunkSize + chunkSize, Len(image.dataURL))) ]
          : chunkIndex \in 0..(totalChunks - 1) }

\* deleteImageChunks: its own readwrite transaction removes every chunk of
\* the folder whose imageName is the given one.
deleteImageChunks(chunks, folderId, imageName) ==
    {c \in chunks : ~(c.folderId = folderId /\ c.imageName = imageName)}

\* A variant of AddAll in which an aborted transaction keeps the first
\* record it added.
AddAllKeepingFirst(chunks, new, outcome) ==
    IF outcome = "complete" /\ {c.id : c \in chunks} \cap {c.id : c \in new} = {}
    THEN [chunks |-> chunks \cup new, ok |-> TRUE]
    ELSE [chunks |-> chunks \cup {c \in new : c.chunkIndex = 0}, ok |-> FALSE]

\* store.add of every record of `new` in the batch transaction.  A record
\* whose key is already stored raises ConstraintError and the transaction
\* aborts; an aborted transaction leaves the store as it was.
AddAll(chunks, new, outcome) ==
    IF outcome = "complete" /\ {c.id : c \in chunks} \cap {c.id : c \in new} = {}
    THEN [chunks |-> chunks \cup new, ok |-> TRUE]
    ELSE [chunks |-> chunks, ok |-> FALSE]

\* What can happen to the add requests of saveImageInChunks.  They are
\* placed after `await deleteImageChunks`, a second transaction on the same
\* store, while the batch transaction has no pending request:
\*   "inactive"  the batch transaction has already committed and store.add
\*               raises TransactionInactiveError,
\*   "abort"     a request fails (quota, disk) and the transaction aborts,
\*   "complete"  every request succeeds and the transaction commits.
AddOutcomes == {"inactive", "abort", "complete"}

\* saveImageInChunks for one image, run without interleaving.
saveImageInChunks(chunks, folderId, image, imageIndex, outcome) ==
    AddAll(deleteImageChunks(chunks, folderId, image.name),
           ChunkRecords(folderId, image, imageIndex), outcome)

\* chunks.sort((a, b) => a.chunkIndex - b.chunkIndex) as a sequence
RECURSIVE SortChunks(_)
SortChunks(group) ==
    IF group = {} THEN <<>>
    ELSE LET first == CHOOSE c \in group : \A d \in group : c.chunkIndex <= d.chunkIndex
         IN  <<first>> \o SortChunks(group \ {first})

\* chunks.map(chunk => chunk.data).join('')
RECURSIVE JoinData(_)
JoinData(sorted) ==
    IF sorted = <<>> THEN <<>> ELSE Head(sorted).data \o JoinData(Tail(sorted))

\* A variant of reconstructImageFromChunks without the completeness test.
reconstructImageFromChunksUnchecked(imageName, group) ==
    LET sorted == SortChunks(group)
    IN  Some([ name |-> imageName,
               dataURL |-> JoinData(sorted),
               originalIndex |-> sorted[1].imageIndex ])

\* reconstructImageFromChunks: None when the number of chunks differs from
\* the totalChunks of the first chunk.
reconstructImageFromChunks(imageName, group) ==
    LET sorted == SortChunks(group)
    IN  IF Len(sorted) # sorted[1].totalChunks
        THEN None
        ELSE Some([ name |-> imageName,
                    dataURL |-> JoinData(sorted),
                    originalIndex |-> sorted[1].imageIndex ])

\* imageFiles.sort by originalIndex, as a sequence
RECURSIVE SortImages(_)
SortImages(images) ==
    IF images = {} THEN <<>>
    ELSE LET first == CHOOSE x \in images : \A y \in images : x.originalIndex <= y.originalIndex
         IN  <<first>> \o SortImages(images \ {first})

\* The range options of getImageFiles: None, or Some(<<start, count>>).
InRange(imageIndex, range) ==
    \/ range = None
    \/ imageIndex >= Get(range)[1] /\ imageIndex < Get(range)[1] + Get(range)[2]

\* getImageFiles: the chunks of the folder grouped by image name, filtered
\* by range, reassembled; an image that cannot be reassembled is skipped.
getImageFiles(chunks, folderId, range) ==
    LET mine == {c \in chunks : c.folderId = folderId}
        names == {c.imageName : c \in mine}
        Group(n) == {c \in mine : c.imageName = n}
        FirstIndex(n) == (CHOOSE c \in Group(n) : \A d \in Group(n) : c.chunkIndex <= d.chunkIndex).imageIndex
        kept == {n \in names : InRange(FirstIndex(n), range)}
    IN  SortImages({ Get(reconstructImageFromChunks(n, Group(n)))
                     : n \in {m \in kept : IsSome(reconstructImageFromChunks(m, Group(m)))} })

\* processBatchImages for one batch, run without interleaving: one readwrite
\* transaction for the adds of every image that has a dataURL (an empty
\* dataURL is falsy and the image is skipped), each image's old chunks
\* deleted first in a transaction of their own.
processBatchImages(chunks, folderId, imageBatch, startIndex, outcome) ==
    LET withData == {i \in 1..Len(imageBatch) : imageBatch[i].dataURL # <<>>}
        first == CHOOSE i \in withData : \A j \in withData : i <= j
        new == UNION {ChunkRecords(folderId, imageBatch[i], startIndex + i - 1) : i \in withData}
        cleared == {c \in chunks :
                      ~(c.folderId = folderId /\ \E i \in withData : c.imageName = imageBatch[i].name)}
    IN  IF withData = {} THEN [chunks |-> chunks, ok |-> TRUE]
        ELSE IF outcome = "inactive"
        THEN [chunks |-> deleteImageChunks(chunks, folderId, imageBatch[first].name), ok |-> FALSE]
        ELSE AddAll(cleared, new, outcome)

\* saveAnnotationData: nothing happens for an empty object; otherwise one
\* record per key of the object is put, the other records are not touched.
saveAnnotationData(store, anns) ==
    IF KeyCount(anns) = 0 THEN store
    ELSE [img \in ImgSet |-> IF IsSome(anns[img]) THEN anns[img] ELSE store[img]]

\* getAnnotationData: an object with one property per stored record.
getAnnotationData(store) == store

\* The values calls into the chunked layer resolve to.  A property the
\* returned object does not have is None.
Returned(kind, anns, ocr, images) ==
    [kind |-> kind, annotations |-> anns, ocrResults |-> ocr, imageFiles |-> images]

\* The folder objects callers pass to the chunked saveFolder: one image with
\* a payload, an annotations object and an ocrResults object.
AnnotationLists == { <<>>, <<"r">> }

AnnotationInputs == [ImgSet -> {None} \cup {Some(l) : l \in AnnotationLists}]

OcrInputs == { EmptyMap, [EmptyMap EXCEPT !.a = Some(<<"w">>)] }

FolderPayloads == { <<>>, Payload("P", chunkSize + 1) }

FolderInputs ==
    [ folderName : {UploadName},
      imageFiles : { << [name |-> "a", dataURL |-> p] >> : p \in FolderPayloads },
      annotations : AnnotationInputs,
      ocrResults : OcrInputs ]

\* The chunked layer after `new OptimizedStorageManager()` and init() on an
\* empty database; no call is in flight.
Savers == {1, 2}

IdleSaver == [pc |-> "idle", image |-> [name |-> "a", dataURL |-> <<>>]]

OptInitWith(chunks) ==
    /\ metaStore = None
    /\ imageChunks = chunks
    /\ annotationStore = EmptyMap
    /\ memoryCache = None
    /\ held = None
    /\ got = Returned("none", None, None, None)
    /\ saver = [p \in Savers |-> IdleSaver]
    /\ lastSaved = None

OptInit == OptInitWith({})

\* A database whose store 'imageChunks' already holds chunks of three
\* images of the folder, written earlier; any of the chunks may be missing.
StoredImages ==
    << [name |-> "a", dataURL |-> Payload("P", chunkSize + 1)],
       [name |-> "b", dataURL |-> Payload("Q", 2 * chunkSize + 1)],
       [name |-> "c", dataURL |-> Payload("R", 1)] >>

StoredChunks ==
    UNION {ChunkRecords(FolderId, StoredImages[i], i - 1) : i \in 1..Len(StoredImages)}

(* ------------------------- OCRAnnotationTool --------------------------- *)

\* The number of records the model lets store.add create after the first.
MaxRecords == 3

\* determineFolderStatus
determineFolderStatus(totalImages, processedImages, annotatedImages) ==
    IF annotatedImages = totalImages /\ totalImages > 0 THEN "calibrated"
    ELSE IF processedImages = totalImages /\ totalImages > 0 THEN "processed"
    ELSE "unprocessed"

\* The key the store's generator gives to the next added record.
NextKey(records) == 2 + Len(records)

\* saveCurrentFolderData: the folder object built from the tool's state has
\* no id, so saveFolder adds a record under a new key.
saveCurrentFolderData(state, records) ==
    Append(records,
           FolderRecord([ id |-> NextKey(records),
                          name |-> Get(state.currentFolder),
                          status |-> determineFolderStatus(Len(ImageNames),
                                                           KeyCount(state.ocrResults),
                                                           KeyCount(state.annotations)),
                          imageFiles |-> ImageNames,
                          ocrResults |-> state.ocrResults,
                          annotations |-> state.annotations ]))

\* A variant of saveCurrentFolderData that passes the id of the record the
\* first save created.
saveCurrentFolderDataWithId(state, records) ==
    IF records = <<>> THEN saveCurrentFolderData(state, records)
    ELSE <<[Head(saveCurrentFolderData(state, <<>>)) EXCEPT !.id = records[1].id]>>

\* The legacy tool has just been opened.
LegacyInit ==
    /\ legacy = [currentFolder |-> None, ocrResults |-> EmptyMap, annotations |-> EmptyMap]
    /\ extra = <<>>

(* ------------------ APIManager: operations on a list ------------------- *)

\* A list handed to batchOCR or processLocalImageFolder has at most
\* MaxFiles files.
MaxFiles == 3

\* How one call of paddleOCR can end: with a result; with a network or HTTP
\* error (fetch rejects, or response.ok is false); or with a non-success
\* status in the response body, found by processPaddleOCRResponse.
FileOutcomes == {"ok", "transport", "semantic"}

\* paddleOCR(imageFile) ending with 'outcome'.  Both kinds of error are
\* caught by the same catch and rethrown as a new Error.
paddleOCR(fileName, outcome) ==
    IF outcome = "ok"
    THEN [ ok |-> TRUE,
           result |-> [ words_result_num |-> 0, words_result |-> <<>>,
                        source |-> "paddle", fileName |-> fileName ] ]
    ELSE [ ok |-> FALSE, error |-> outcome ]

\* The names of a list of files.
Names(imageFiles) == {imageFiles[i] : i \in 1..Len(imageFiles)}

\* The last position of a name in a list of files: an assignment to
\* results[name] replaces what an earlier file of that name left there.
LastIndex(imageFiles, name) ==
    LET idx == {i \in 1..Len(imageFiles) : imageFiles[i] = name}
    IN  CHOOSE i \in idx : \A j \in idx : j <= i

\* What a caller sees when the operation throws.
Thrown == [thrown |-> TRUE]

\* processLocalImageFolder(imageFiles) where the call for the i-th file
\* ends with outcomes[i].  The failures are counted in errorCount; the
\* summary has no field failureCount.
processLocalImageFolder(imageFiles, outcomes) ==
    IF Len(imageFiles) = 0 THEN Thrown
    ELSE LET item(i) == paddleOCR(imageFiles[i], outcomes[i])
             failing == SelectSeq([i \in 1..Len(imageFiles) |-> i],
                                  LAMBDA i : ~item(i).ok)
             errors == [k \in 1..Len(failing) |->
                           [ fileName |-> imageFiles[failing[k]],
                             error |-> item(failing[k]).error ]]
         IN  [ thrown |-> FALSE,
               success |-> TRUE,
               totalFiles |-> Len(imageFiles),
               successCount |-> Cardinality(Names(imageFiles)) - Len(errors),
               errorCount |-> Len(errors),
               results |->
                   [ name \in Names(imageFiles) |->
                       LET i == LastIndex(imageFiles, name)
                       IN  IF item(i).ok THEN item(i).result
                           ELSE [ words_result_num |-> 0,
                                  words_result |-> <<>>,
                                  error |-> item(i).error,
                                  source |-> "paddle" ] ],
               errors |-> errors ]

\* A variant of batchOCR without the try block around each file: the
\* first failed call rejects Promise.all and the operation throws.
batchOCRFailFast(imageFiles, outcomes) ==
    IF \E i \in 1..Len(imageFiles) : outcomes[i] # "ok" THEN Thrown
    ELSE IF Len(imageFiles) = 0 THEN Thrown
    ELSE [ thrown |-> FALSE,
           success |-> TRUE,
           totalFiles |-> Len(imageFiles),
           successCount |-> Len(imageFiles),
           failureCount |-> 0,
           results |-> [ name \in Names(imageFiles) |->
                           paddleOCR(name, "ok").result ] ]

\* batchOCR(imageFiles) where the call for the i-th file ends with
\* outcomes[i]: every file is sent once and the outcomes are collected.
batchOCR(imageFiles, outcomes) ==
    IF Len(imageFiles) = 0 THEN Thrown
    ELSE LET item(i) == paddleOCR(imageFiles[i], outcomes[i])
             succeeded == {i \in 1..Len(imageFiles) : item(i).ok}
         IN  [ thrown |-> FALSE,
               success |-> TRUE,
               totalFiles |-> Len(imageFiles),
               successCount |-> Cardinality(succeeded),
               failureCount |-> Len(imageFiles) - Cardinality(succeeded),
               results |->
                   [ name \in Names(imageFiles) |->
                       LET i == LastIndex(imageFiles, name)
                       IN  IF item(i).ok THEN item(i).result
                           ELSE [ error |-> item(i).error,
                                  words_result_num |-> 0,
                                  words_result |-> <<>> ] ] ]

\* The lists of at most MaxFiles files, names repeated or not, each with
\* the outcomes of the OCR calls.
Requests ==
    UNION {[imageFiles : [1..n -> ImgSet], outcomes : [1..n -> FileOutcomes]] :
              n \in 0..MaxFiles}

\* No batch operation has been called; the caller holds the list r.
ApiInitWith(r) ==
    /\ summary = None
    /\ request = r

ApiInit == ApiInitWith([imageFiles |-> <<>>, outcomes |-> <<>>])

(* ---------------------------- BatchProcessor --------------------------- *)

\* options.retryCount
retryCount == 3

\* options.retryDelay, in milliseconds
retryDelay == 2000

\* options.maxConcurrent; the pool is constructed with two workers
\* (new BatchProcessor({maxConcurrent: 2})).
maxConcurrent == 2

\* The queue createOCRQueue builds holds JobCount jobs.
JobCount == 3

Jobs == 1..JobCount

\* The batch of job j: the first job is the batch of a folder with every
\* image, the others are batches of folders with the first image only.
BatchOf(j) == IF j = 1 THEN ImageNames ELSE SubSeq(ImageNames, 1, 1)

\* const concurrent = Math.min(this.options.maxConcurrent, queue.length)
Workers == 1..Min2(maxConcurrent, JobCount)

\* The File objects processOCRBatch hands to batchOCR: the images of the
\* batch whose stored data can be rebuilt.
FileObjects(j, rebuilt) == SelectSeq(BatchOf(j), LAMBDA name : name \in rebuilt)

\* processOCRBatch for job j: the summary of batchOCR is split into the
\* results and the errors; when batchOCR throws, the batch is rejected.
processOCRBatch(j, rebuilt, outcomes) ==
    LET ocrResults == batchOCR(FileObjects(j, rebuilt), outcomes)
    IN  IF ocrResults.thrown THEN [rejected |-> TRUE]
        ELSE LET failing == {name \in DOMAIN ocrResults.results :
                                "error" \in DOMAIN ocrResults.results[name]}
             IN  [ rejected |-> FALSE,
                   results |-> [name \in DOMAIN ocrResults.results \ failing |->
                                   ocrResults.results[name]],
                   errors |-> {[fileName |-> name,
                                error |-> ocrResults.results[name].error] :
                                  name \in failing},
                   imageCount |-> Len(BatchOf(j)) ]

\* A variant of the catch block that waits retryDelay after every failure.
afterFailedAttemptFixedDelay(attempt) ==
    [retry |-> attempt < retryCount, wait |-> retryDelay]

\* The catch block of executeJobWithRetry after the failure of the given
\* attempt: whether another attempt follows, and the sleep before it.
afterFailedAttempt(attempt) ==
    [retry |-> attempt < retryCount, wait |-> retryDelay * attempt]

\* A worker that is not running.
ExitedWorker == [pc |-> "exited", job |-> 0, attempt |-> 0]

\* No batch task has been started.
BatchInit ==
    /\ taskStatus = "none"
    /\ rebuiltFiles = {}
    /\ queue = <<>>
    /\ workers = [w \in Workers |-> ExitedWorker]
    /\ attempts = [j \in Jobs |-> <<>>]
    /\ waits = [j \in Jobs |-> <<>>]
    /\ successful = <<>>
    /\ failed = <<>>

(* ------------------ APIManager: the OCR response ----------------------- *)

\* The rectangle convertBboxToLocation returns for a missing region.
Placeholder == [left |-> 0, top |-> 0, width |-> 100, height |-> 30]

\* A point of a region as the service sends it: a pair [x, y]; a number,
\* which cannot be destructured; or an array [x] with one element, whose y
\* is undefined.
Pair(x, y) == [kind |-> "pair", x |-> x, y |-> y]

NumberPoint == [kind |-> "number", x |-> 0, y |-> 0]

SinglePoint(x) == [kind |-> "single", x |-> x, y |-> 0]

\* A region: absent (undefined or null), a value that is not an array, or
\* an array of points.
AbsentRegion == [kind |-> "absent", points |-> <<>>]

NotArrayRegion == [kind |-> "notArray", points |-> <<>>]

ArrayRegion(points) == [kind |-> "array", points |-> points]

\* Math.min / Math.max over the four values of a function on 1..4.
MinOf4(f) == Min2(Min2(f[1], f[2]), Min2(f[3], f[4]))

MaxOf4(f) == Max2(Max2(f[1], f[2]), Max2(f[3], f[4]))

\* A conversion that takes the first corner for the top left one and the
\* third for the bottom right one.
convertBboxToLocationInOrder(bbox) ==
    IF bbox.kind # "array" \/ Len(bbox.points) < 4
    THEN [thrown |-> FALSE, location |-> Placeholder]
    ELSE IF \E i \in 1..4 : bbox.points[i].kind = "number"
    THEN [thrown |-> TRUE]
    ELSE [ thrown |-> FALSE,
           location |->
               [ left |-> Round(bbox.points[1].x, 1),
                 top |-> Round(bbox.points[1].y, 1),
                 width |-> Round(bbox.points[3].x - bbox.points[1].x, 1),
                 height |-> Round(bbox.points[3].y - bbox.points[1].y, 1) ] ]

\* convertBboxToLocation(bbox): the placeholder for a region that is
\* missing, not an array or shorter than 4; a TypeError when one of the
\* first four points cannot be destructured; NaN where a coordinate is
\* undefined; otherwise the rounded bounding rectangle.
convertBboxToLocation(bbox) ==
    IF bbox.kind # "array" \/ Len(bbox.points) < 4
    THEN [thrown |-> FALSE, location |-> Placeholder]
    ELSE IF \E i \in 1..4 : bbox.points[i].kind = "number"
    THEN [thrown |-> TRUE]
    ELSE LET xs == [i \in 1..4 |-> bbox.points[i].x]
             ys == [i \in 1..4 |-> bbox.points[i].y]
             left == MinOf4(xs)
             top == MinOf4(ys)
             right == MaxOf4(xs)
             bottom == MaxOf4(ys)
             undefinedY == \E i \in 1..4 : bbox.points[i].kind = "single"
         IN  [ thrown |-> FALSE,
               location |->
                   [ left |-> Round(left, 1),
                     top |-> IF undefinedY THEN NaN ELSE Round(top, 1),
                     width |-> Round(right - left, 1),
                     height |-> IF undefinedY THEN NaN ELSE Round(bottom - top, 1) ] ]

RECURSIVE FormatItems(_)
\* The map and filter of processPaddleOCRResponse over the raw items: an
\* item with a text gets its location from convertBboxToLocation, an item
\* without text is dropped, and an exception in one item ends the map.
FormatItems(items) ==
    IF items = <<>> THEN [thrown |-> FALSE, words_result |-> <<>>]
    ELSE LET item == Head(items)
             rest == FormatItems(Tail(items))
             converted1 == convertBboxToLocation(item.text_region)
         IN  IF item.text # "" /\ converted1.thrown THEN [thrown |-> TRUE]
             ELSE IF rest.thrown THEN [thrown |-> TRUE]
             ELSE IF item.text = "" THEN rest
             ELSE [ thrown |-> FALSE,
                    words_result |->
                        <<[text |-> item.text, location |-> converted1.location]>>
                            \o rest.words_result ]

\* The corners of regions are pixel positions from 0 to MaxCorner.
MaxCorner == 2

\* A response has at most MaxItems items.
MaxItems == 2

\* Every quadrilateral with corners on the grid, in every order.
QuadInputs ==
    {ArrayRegion(<<Pair(p[1], p[2]), Pair(p[3], p[4]), Pair(p[5], p[6]), Pair(p[7], p[8])>>) :
        p \in [1..8 -> 0..MaxCorner]}

\* The regions of the items of a response: a slanted quadrilateral in two
\* orders, and the regions that are missing or malformed.
RegionKinds ==
    { ArrayRegion(<<Pair(1, 0), Pair(2, 1), Pair(1, 2), Pair(0, 1)>>),
      ArrayRegion(<<Pair(1, 2), Pair(0, 1), Pair(2, 1), Pair(1, 0)>>),
      AbsentRegion,
      NotArrayRegion,
      ArrayRegion(<<Pair(1, 0), Pair(2, 1), Pair(1, 2)>>),
      ArrayRegion(<<Pair(1, 0), NumberPoint, Pair(1, 2), Pair(0, 1)>>),
      ArrayRegion(<<Pair(1, 0), Pair(2, 1), SinglePoint(1), Pair(0, 1)>>) }

\* The raw items: with a text or with an empty one.
ItemInputs == [text : {"t", ""}, text_region : RegionKinds]

ResponseInputs == UNION {[1..n -> ItemInputs] : n \in 0..MaxItems}

\* No response has been processed; the service has answered with items.
ResponseInitWith(items) ==
    /\ response = items
    /\ normalized = None

ResponseInit == ResponseInitWith(<<>>)

(* ------------- OptimizedStorageManager: the memory cache --------------- *)

\* config.maxMemoryCache: the number of entries the Map may hold.
maxMemoryCache == 2

\* The folders callers work with.
MaxFolders == 3

FolderIds == 1..MaxFolders

\* `folder_${folderId}`: the keys are modelled by the folder ids.
CacheKey(folderId) == folderId

\* The annotations objects: {} or an object with one record.
AnnotationObjects == { {}, {"x"}, {"y"} }

\* A folder value as saveFolderMetadata and getFolderById build it: the
\* metadata record and, when the property is there, the annotations object.
FolderValue(folderId, anns) == [wrapped |-> FALSE, id |-> folderId, annotations |-> anns]

\* The value the Map keeps for a key: { data, timestamp }.
CacheEntry(data) == [wrapped |-> TRUE, id |-> data.id, annotations |-> data.annotations]

\* Map.prototype.has, get, delete and set on the list of entries; set
\* keeps the place of a key that is there and appends a new one.
MapHas(map, key) == \E i \in 1..Len(map) : map[i].key = key

MapGet(map, key) == (CHOOSE e \in {map[i] : i \in 1..Len(map)} : e.key = key).value

MapDelete(map, key) ==
    LET Other(e) == e.key # key
    IN  SelectSeq(map, Other)

MapSet(map, key, value) ==
    IF MapHas(map, key)
    THEN [i \in 1..Len(map) |-> IF map[i].key = key THEN [key |-> key, value |-> value] ELSE map[i]]
    ELSE Append(map, [key |-> key, value |-> value])

MapKeys(map) == {map[i].key : i \in 1..Len(map)}

\* updateMemoryCache(key, data): when the Map holds maxMemoryCache entries
\* its first key is deleted, whatever key is written; then the entry is set.
updateMemoryCache(map, key, data) ==
    LET room == IF Len(map) >= maxMemoryCache THEN MapDelete(map, map[1].key) ELSE map
    IN  MapSet(room, key, CacheEntry(data))

\* The history of uses after key was used and the keys gone were dropped.
Used(order, key, keys) ==
    LET Kept(k) == k # key /\ k \in keys
    IN  SelectSeq(order, Kept) \o <<key>>

\* A new OptimizedStorageManager on an empty database.
CacheInit ==
    /\ folderRecords = [id \in FolderIds |-> None]
    /\ annotationRecords = [id \in FolderIds |-> {}]
    /\ cacheMap = <<>>
    /\ recency = <<>>
    /\ returned = None

\* No store request of the calibration page is in flight.
AsyncInit == pending = <<>>

\* The store is empty and nothing has been exported or imported.
BackupInit ==
    /\ folderStore = <<>>
    /\ keyGenerator = 0
    /\ exportedDoc = None
    /\ importResults = None

LaterInit == CacheInit /\ AsyncInit /\ BackupInit

(* ------------------------------- Init ---------------------------------- *)

\* The folder has just been uploaded from the dashboard; no calibration
\* page is open.
PagesInit ==
    /\ now = 0
    /\ db = FolderRecord(UploadedFolder)
    /\ dash = Some(FolderRecord(UploadedFolder))
    /\ dashPc = "idle"
    /\ exported = None
    /\ open = FALSE
    /\ folderData = None
    /\ annotations = EmptyMap
    /\ aliased = {}
    /\ currentImageIndex = 1
    /\ imageInfo = None
    /\ drawingState = None
    /\ hasChanges = FALSE
    /\ textCount = 0
    /\ charCount = 0
    /\ domImg = None
    /\ seeded = {}
    /\ dbDeleted = FALSE

Init == PagesInit /\ LaterInit /\ OptInit /\ LegacyInit /\ ApiInit /\ BatchInit /\ CanvasInit /\ ResponseInit

\* The same, on a database that holds chunks.
InitRead == PagesInit /\ LaterInit /\ LegacyInit /\ ApiInit /\ BatchInit /\ CanvasInit /\ ResponseInit /\ \E chunks \in SUBSET StoredChunks : OptInitWith(chunks)

(* ------------------------ DashboardManager ----------------------------- *)

\* The values a read of Date.now() can return: time does not run backwards.
ClockValues == now..MaxClock

\* loadFolders / refreshData: the dashboard reads the store again.
loadFolders ==
    /\ dash' = Some(db)
    /\ UNCHANGED <<now, db, dashPc, exported, appVars, seeded>>
    /\ UNCHANGED otherVars

\* processSingleFolder: offered for an unprocessed folder, and called by
\* reprocessFolder after its reset.  `rebuilt` are the images whose stored
\* data can be turned back into a File; with none the handler raises and
\* shows an alert.  The OCR of image "a" answers at time tA and that of
\* image "b" at time tB; every rebuilt image gets a result.
processSingleFolder(confirmed, rebuilt, outA, outB, tA, tB) ==
    /\ IsSome(dash)
    /\ \/ dashPc = "reprocess"
       \/ dashPc = "idle" /\ Get(dash).status = "unprocessed"
    /\ dashPc' = "idle"
    /\ IF confirmed /\ rebuilt # {}
       THEN LET results == [a |-> IF "a" \in rebuilt
                                  THEN Some(processPaddleOCRResponse(outA, tA)) ELSE None,
                            b |-> IF "b" \in rebuilt
                                  THEN Some(processPaddleOCRResponse(outB, tB)) ELSE None]
                folder == [Get(dash) EXCEPT
                              !.ocrResults = results,
                              !.status = "processed",
                              !.metadata.processedImages = Len(Get(dash).imageFiles)]
            IN  /\ db' = saveFolder(folder, TRUE)
                /\ dash' = Some(folder)
                /\ now' = tB
       ELSE UNCHANGED <<db, dash, now>>
    /\ UNCHANGED <<exported, appVars, seeded>>
    /\ UNCHANGED otherVars

\* reprocessFolder up to its call of processSingleFolder: status, OCR
\* results and processedImages are reset and the folder object is saved.
reprocessFolder ==
    /\ IsSome(dash)
    /\ dashPc = "idle"
    /\ Get(dash).status = "processed"
    /\ LET folder == [Get(dash) EXCEPT
                         !.status = "unprocessed",
                         !.ocrResults = EmptyMap,
                         !.metadata.processedImages = 0]
       IN  /\ db' = saveFolder(folder, TRUE)
           /\ dash' = Some(folder)
    /\ dashPc' = "reprocess"
    /\ UNCHANGED <<now, exported, appVars, seeded>>
    /\ UNCHANGED otherVars

\* exportCalibratedData: the store is read again (refreshData); a calibrated
\* folder goes through processExportData and the document is downloaded,
\* otherwise an alert is shown.
exportCalibratedData ==
    /\ dashPc = "idle"
    /\ IF db.status = "calibrated"
       THEN /\ exported' = Some(processExportData(db))
            /\ dash' = Some(processExportDataFolder(db))
       ELSE /\ exported' = exported
            /\ dash' = Some(db)
    /\ UNCHANGED <<now, db, dashPc, appVars, seeded>>
    /\ UNCHANGED otherVars

\* StorageManager.updateFolderOCRResults: the stored folder is read, the
\* given results are merged into its ocrResults, processedImages is set to
\* the number of keys, the status becomes processed when that equals
\* totalImages, and the folder is saved.
updateFolderOCRResults(ocrResults) ==
    /\ LET merged == [img \in ImgSet |->
                         IF IsSome(ocrResults[img]) THEN ocrResults[img] ELSE db.ocrResults[img]]
           folder == [db EXCEPT
                         !.ocrResults = merged,
                         !.metadata.processedImages = KeyCount(merged),
                         !.status = IF KeyCount(merged) = db.metadata.totalImages
                                    THEN "processed" ELSE db.status]
       IN  db' = saveFolder(folder, TRUE)
    /\ UNCHANGED <<now, dashVars, appVars, seeded, otherVars>>

\* DashboardManager.deleteFolder: after the user confirms, the record is
\* deleted from store 'folders' by StorageManager.deleteFolder and the entry
\* is removed from this.folders.
deleteFolder(confirmed) ==
    /\ IsSome(dash)
    /\ dashPc = "idle"
    /\ IF confirmed
       THEN /\ dbDeleted' = TRUE
            /\ dash' = None
       ELSE UNCHANGED <<dbDeleted, dash>>
    /\ UNCHANGED <<now, db, dashPc, exported, appVars, seeded, optVars, legacyVars, batchVars,
                   canvasVars, responseVars, laterVars>>

(* -------------------------- CalibrationApp ----------------------------- *)

\* The calibration page as its constructor leaves it.
AppClosed ==
    /\ open' = FALSE
    /\ folderData' = None
    /\ annotations' = EmptyMap
    /\ aliased' = {}
    /\ currentImageIndex' = 1
    /\ imageInfo' = None
    /\ drawingState' = None
    /\ hasChanges' = FALSE
    /\ textCount' = 0
    /\ charCount' = 0
    /\ domImg' = None

\* Effect of loadCurrentImage on the page, from the Map anns / alias set al;
\* t is what Date.now() returns if the OCR result is converted.
LoadInto(loaded, idx, anns, al, ocrResults, t) ==
    LET r == loadCurrentImage(loaded, idx, anns, al, ocrResults, t)
    IN  /\ now' = IF r.seeds THEN t ELSE now
        /\ annotations' = r.annotations
        /\ aliased' = r.aliased
        /\ imageInfo' = r.imageInfo
        /\ textCount' = r.textCount
        /\ charCount' = r.charCount
        /\ domImg' = r.domImg
        /\ seeded' = IF r.seeds THEN seeded \cup {ImageNames[idx]} ELSE seeded

\* init / loadFolderData / loadCurrentImage: the page is opened from a
\* folder card (calibrate or edit), reads the folder from the store, fills
\* the Map from its annotations and loads the first image.
loadFolderData(loaded, t) ==
    /\ ~open
    /\ loaded \/ ImageNames[1] \in Unreadable
    /\ IsSome(dash)
    /\ Get(dash).status \in {"processed", "calibrated"}
    /\ open' = TRUE
    /\ folderData' = Some(db)
    /\ currentImageIndex' = 1
    /\ LoadInto(loaded, 1,
                [img \in ImgSet |->
                    IF IsSome(db.annotations[img])
                    THEN Some(Get(db.annotations[img]).textRegions)
                    ELSE None],
                {img \in ImgSet : IsSome(db.annotations[img])},
                db.ocrResults, t)
    /\ UNCHANGED <<db, dashVars, drawingState, hasChanges>>
    /\ UNCHANGED otherVars

\* goBack, or the page being closed: the session state is gone.
goBack ==
    /\ open
    /\ AppClosed
    /\ UNCHANGED <<now, db, dashVars, seeded>>
    /\ UNCHANGED otherVars

\* saveCurrentAnnotations with the outcome 'written' of its store request:
\* the folder object, the alias set, the store and hasChanges it leaves.
saveCurrentAnnotations(written) ==
    IF ~hasChanges
    THEN [ folderData |-> Get(folderData), aliased |-> aliased, db |-> db,
           hasChanges |-> FALSE ]
    ELSE LET folder == saveCurrentFolder(Get(folderData), annotations, CurrentFileName)
         IN  [ folderData |-> folder,
               aliased |-> IF IsSome(annotations[CurrentFileName])
                           THEN aliased \cup {CurrentFileName}
                           ELSE aliased \ {CurrentFileName},
               db |-> saveFolder(folder, written),
               hasChanges |-> ~written ]

\* Ctrl+S
saveKey(written) ==
    /\ open
    /\ LET r == saveCurrentAnnotations(written)
       IN  /\ folderData' = Some(r.folderData)
           /\ aliased' = r.aliased
           /\ db' = r.db
           /\ hasChanges' = r.hasChanges
    /\ UNCHANGED <<now, dashVars, open, annotations, currentImageIndex, imageInfo,
                   drawingState, textCount, charCount, domImg, seeded>>
    /\ UNCHANGED otherVars

\* nextImage (step = 1) and previousImage (step = -1): save, move, load.
Navigate(step, written, loaded, t) ==
    /\ open
    /\ currentImageIndex + step \in 1..Len(ImageNames)
    /\ loaded \/ ImageNames[currentImageIndex + step] \in Unreadable
    /\ LET r == saveCurrentAnnotations(written)
       IN  /\ folderData' = Some(r.folderData)
           /\ db' = r.db
           /\ hasChanges' = r.hasChanges
           /\ currentImageIndex' = currentImageIndex + step
           /\ LoadInto(loaded, currentImageIndex + step, annotations, r.aliased,
                       r.folderData.ocrResults, t)
    /\ UNCHANGED <<dashVars, open, drawingState>>
    /\ UNCHANGED otherVars

nextImage(written, loaded, t) == Navigate(1, written, loaded, t)

previousImage(written, loaded, t) == Navigate(-1, written, loaded, t)

\* The tail shared by the handlers that end in saveAllAnnotations: the Map
\* is anns, the folder object before the save is 'folder'.  hasChanges is
\* cleared after the write whether or not it succeeded.
SaveAllInto(folder, anns, written) ==
    LET saved == saveAllFolder(folder, anns)
    IN  /\ folderData' = Some(saved)
        /\ aliased' = saveAllAliased(anns)
        /\ db' = saveFolder(saved, written)
        /\ hasChanges' = FALSE

\* addNewTextItem; Date.now() returns t
addNewTextItem(written, t) ==
    /\ open
    /\ ManualTotal(annotations) < MaxManual
    /\ now' = t
    /\ LET newAnnotation == [id |-> t, text |-> "", region |-> DefaultRegion,
                             isManual |-> TRUE]
           list == Append(ListOf(annotations, CurrentFileName), newAnnotation)
           anns == [annotations EXCEPT ![CurrentFileName] = Some(list)]
           page == Displayed(list, CurrentFileName)
       IN  /\ annotations' = anns
           /\ textCount' = page.textCount
           /\ charCount' = page.charCount
           /\ domImg' = page.domImg
           /\ SaveAllInto(Get(folderData), anns, written)
    /\ UNCHANGED <<dashVars, open, currentImageIndex, imageInfo, drawingState,
                   seeded>>
    /\ UNCHANGED otherVars

\* clearAllText, confirmed
clearAllText(written) ==
    /\ open
    /\ LET anns == [annotations EXCEPT ![CurrentFileName] = Some(<<>>)]
           page == Displayed(<<>>, CurrentFileName)
       IN  /\ annotations' = anns
           /\ textCount' = page.textCount
           /\ charCount' = page.charCount
           /\ domImg' = page.domImg
           /\ SaveAllInto(Get(folderData), anns, written)
    /\ UNCHANGED <<now, dashVars, open, currentImageIndex, imageInfo, drawingState,
                   seeded>>
    /\ UNCHANGED otherVars

\* deleteAnnotation(annotationId): the Map after the call.
deleteAnnotation(anns, img, annotationId) ==
    [anns EXCEPT ![img] = Some(Filter(ListOf(anns, img), annotationId))]

\* Click on the delete button of the i-th item of the text list.
deleteClick(i, written) ==
    /\ open
    /\ IsSome(domImg)
    /\ i \in 1..Len(ListOf(annotations, Get(domImg)))
    /\ LET annotationId == ListOf(annotations, Get(domImg))[i].id
           anns == deleteAnnotation(annotations, CurrentFileName, annotationId)
           page == Displayed(ListOf(anns, CurrentFileName), CurrentFileName)
       IN  /\ annotations' = anns
           /\ textCount' = page.textCount
           /\ charCount' = page.charCount
           /\ domImg' = page.domImg
           /\ SaveAllInto(Get(folderData), anns, written)
    /\ UNCHANGED <<now, dashVars, open, currentImageIndex, imageInfo, drawingState,
                   seeded>>
    /\ UNCHANGED otherVars

\* Input event on the textarea of the i-th item of the text list.
inputText(i, value, written) ==
    /\ open
    /\ IsSome(domImg)
    /\ i \in 1..Len(ListOf(annotations, Get(domImg)))
    /\ LET list == ListOf(annotations, Get(domImg))
           anns == [annotations EXCEPT ![Get(domImg)] =
                       Some([list EXCEPT ![i].text = value])]
           stats == updateTextStats(anns, CurrentFileName)
           newFolderData == [Get(folderData) EXCEPT
                                !.ocrResults = SyncOcrWord(@, CurrentFileName,
                                                            list[i].id, value)]
       IN  /\ annotations' = anns
           /\ textCount' = stats.textCount
           /\ charCount' = stats.charCount
           /\ SaveAllInto(newFolderData, anns, written)
    /\ UNCHANGED <<now, dashVars, open, currentImageIndex, imageInfo, drawingState,
                   domImg, seeded>>
    /\ UNCHANGED otherVars

\* handleMouseDown at point start
handleMouseDown(start) ==
    /\ open
    /\ drawingState' = Some(start)
    /\ UNCHANGED <<now, db, dashVars, open, folderData, annotations, aliased,
                   currentImageIndex, imageInfo, hasChanges, textCount, charCount,
                   domImg, seeded>>
    /\ UNCHANGED otherVars

\* handleMouseUp at point end; Date.now() returns t if the box is accepted
handleMouseUp(end, t) ==
    /\ open
    /\ IsSome(drawingState)
    /\ ManualTotal(annotations) < MaxManual
    /\ drawingState' = None
    /\ LET region == calculateRegion(Get(drawingState), end)
           originalRegion == displayToOriginalCoords(region, imageInfo)
           newAnnotation == [id |-> t, text |-> "", region |-> originalRegion,
                             isManual |-> TRUE]
           list == Append(ListOf(annotations, CurrentFileName), newAnnotation)
           page == Displayed(list, CurrentFileName)
       IN  IF region.width < MinBoxSize \/ region.height < MinBoxSize
           THEN UNCHANGED <<now, folderData, annotations, hasChanges, textCount,
                            charCount, domImg>>
           ELSE /\ now' = t
                /\ annotations' = [annotations EXCEPT ![CurrentFileName] = Some(list)]
                /\ folderData' =
                       IF CurrentFileName \in aliased
                       THEN Some([Get(folderData) EXCEPT
                                    !.annotations[CurrentFileName] =
                                        Some(AnnotationEntry(CurrentFileName, list))])
                       ELSE folderData
                /\ hasChanges' = TRUE
                /\ textCount' = page.textCount
                /\ charCount' = page.charCount
                /\ domImg' = page.domImg
    /\ UNCHANGED <<db, dashVars, open, aliased, currentImageIndex, imageInfo,
                   seeded>>
    /\ UNCHANGED otherVars

\* completeCalibration: saveAllAnnotations, then the folder is saved again
\* with status 'calibrated'.
completeCalibration(written, writtenStatus) ==
    /\ open
    /\ LET saved == saveAllFolder(Get(folderData), annotations)
           calibrated == [saved EXCEPT !.status = "calibrated"]
       IN  /\ folderData' = Some(calibrated)
           /\ aliased' = saveAllAliased(annotations)
           /\ db' = IF writtenStatus THEN FolderRecord(calibrated)
                    ELSE saveFolder(saved, written)
           /\ hasChanges' = FALSE
    /\ UNCHANGED <<now, dashVars, open, annotations, currentImageIndex, imageInfo,
                   drawingState, textCount, charCount, domImg, seeded>>
    /\ UNCHANGED otherVars

(* ---------------------- OptimizedStorageManager ------------------------ *)

\* saveFolder of the chunked layer.  imageFiles, annotations and ocrResults
\* are taken out of the object; the rest is the metadata record.  The caller
\* passes the id once the folder has one.  ocrResults is not written to any
\* store.  A failed image write raises before the annotations are saved.
OptimizedSaveFolder(folder, outcome) ==
    /\ \A p \in Savers : saver[p].pc = "idle"
    /\ LET savedFolder == [id |-> FolderId, folderName |-> folder.folderName,
                           imageCount |-> Len(folder.imageFiles)]
           written == processBatchImages(imageChunks, FolderId, folder.imageFiles, 0, outcome)
       IN  /\ metaStore' = Some(savedFolder)
           /\ imageChunks' = written.chunks
           /\ IF written.ok
              THEN /\ annotationStore' = saveAnnotationData(annotationStore, folder.annotations)
                   /\ memoryCache' = Some(Returned("folder", None, None, None))
                   /\ held' = Some(folder)
                   /\ got' = Returned("folder", None, None, None)
                   /\ lastSaved' = Some(folder.imageFiles[1].dataURL)
              ELSE /\ got' = Returned("error", None, None, None)
                   /\ lastSaved' = None
                   /\ UNCHANGED <<annotationStore, memoryCache, held>>
    /\ UNCHANGED <<saver, appAll, legacyVars, dbDeleted, batchVars, canvasVars, responseVars, laterVars>>

\* getFolderById of the chunked layer.  A cached entry is returned as it is
\* kept in the Map, { data, timestamp }, unless images are asked for;
\* otherwise the metadata record is read and the images and annotations are
\* attached on demand.
OptimizedGetFolderById(includeImages, includeAnnotations) ==
    /\ \A p \in Savers : saver[p].pc = "idle"
    /\ IF IsSome(memoryCache) /\ ~includeImages
       THEN /\ got' = Returned("entry", None, None, None)
            /\ UNCHANGED memoryCache
       ELSE IF metaStore = None
       THEN /\ got' = Returned("null", None, None, None)
            /\ UNCHANGED memoryCache
       ELSE LET result == Returned("folder",
                              IF includeAnnotations
                              THEN Some(getAnnotationData(annotationStore)) ELSE None,
                              None,
                              IF includeImages
                              THEN Some(getImageFiles(imageChunks, FolderId, None)) ELSE None)
            IN  /\ got' = result
                /\ memoryCache' = IF includeImages THEN memoryCache ELSE Some(result)
    /\ UNCHANGED <<metaStore, imageChunks, annotationStore, held, saver, lastSaved, appAll, legacyVars, dbDeleted, batchVars, canvasVars, responseVars, laterVars>>

\* The page is loaded again: a new OptimizedStorageManager starts with an
\* empty memoryCache; the database is the same.
reloadPage ==
    /\ \A p \in Savers : saver[p].pc = "idle"
    /\ memoryCache' = None
    /\ got' = Returned("none", None, None, None)
    /\ UNCHANGED <<metaStore, imageChunks, annotationStore, held, saver, lastSaved, appAll, legacyVars, dbDeleted, batchVars, canvasVars, responseVars, laterVars>>

\* deleteFolders: maps the ids to this.deleteFolder(id).  The class has no
\* deleteFolder method, so the call raises TypeError for a non-empty list
\* and nothing is deleted; for an empty list it completes.
deleteFolders(folderIds) ==
    /\ \A p \in Savers : saver[p].pc = "idle"
    /\ got' = IF folderIds = {} THEN Returned("done", None, None, None)
              ELSE Returned("error", None, None, None)
    /\ UNCHANGED <<metaStore, imageChunks, annotationStore, memoryCache, held, saver,
                   lastSaved, appAll, legacyVars, dbDeleted, batchVars, canvasVars, responseVars, laterVars>>

\* processBatchImages is called for a batch holding image "a" with a payload
\* of n characters.  An empty dataURL is skipped and the empty transaction
\* completes; otherwise saveImageInChunks starts and awaits the delete.
beginSave(p, tag, n) ==
    /\ saver[p].pc = "idle"
    /\ LET image == [name |-> "a", dataURL |-> Payload(tag, n)]
       IN  IF image.dataURL = <<>>
           THEN /\ lastSaved' = Some(image.dataURL)
                /\ got' = Returned("saved", None, None, None)
                /\ UNCHANGED saver
           ELSE /\ saver' = [saver EXCEPT ![p] = [pc |-> "deleting", image |-> image]]
                /\ lastSaved' = None
                /\ UNCHANGED got
    /\ UNCHANGED <<metaStore, imageChunks, annotationStore, memoryCache, held, appAll, legacyVars, dbDeleted, batchVars, canvasVars, responseVars, laterVars>>

\* The transaction of deleteImageChunks commits, or its request fails: then
\* nothing is deleted and processBatchImages rejects.
deleteStep(p, ok) ==
    /\ saver[p].pc = "deleting"
    /\ IF ok
       THEN /\ imageChunks' = deleteImageChunks(imageChunks, FolderId, saver[p].image.name)
            /\ saver' = [saver EXCEPT ![p].pc = "adding"]
            /\ lastSaved' = None
            /\ UNCHANGED got
       ELSE /\ saver' = [saver EXCEPT ![p] = IdleSaver]
            /\ got' = Returned("deleteError", None, None, None)
            /\ UNCHANGED <<imageChunks, lastSaved>>
    /\ UNCHANGED <<metaStore, annotationStore, memoryCache, held, appAll, legacyVars, dbDeleted, batchVars, canvasVars, responseVars, laterVars>>

\* The add requests of saveImageInChunks and the end of the batch
\* transaction: processBatchImages resolves or rejects.
addStep(p, outcome) ==
    /\ saver[p].pc = "adding"
    /\ LET written == AddAll(imageChunks, ChunkRecords(FolderId, saver[p].image, 0), outcome)
       IN  /\ imageChunks' = written.chunks
           /\ IF written.ok
              THEN /\ lastSaved' = Some(saver[p].image.dataURL)
                   /\ got' = Returned("saved", None, None, None)
              ELSE /\ got' = Returned("addError", None, None, None)
                   /\ UNCHANGED lastSaved
    /\ saver' = [saver EXCEPT ![p] = IdleSaver]
    /\ UNCHANGED <<metaStore, annotationStore, memoryCache, held, appAll, legacyVars, dbDeleted, batchVars, canvasVars, responseVars, laterVars>>

\* getImageFiles(folderId, range) on the stored chunks.
readImages(range) ==
    /\ got' = Returned("images", None, None, Some(getImageFiles(imageChunks, FolderId, range)))
    /\ UNCHANGED <<metaStore, imageChunks, annotationStore, memoryCache, held, saver,
                   lastSaved, appAll, legacyVars, dbDeleted, batchVars, canvasVars, responseVars, laterVars>>

(* ------------------- OCRAnnotationTool: handlers ----------------------- *)

\* selectFolder: after the user confirms, the directory becomes the current
\* folder and the folder data is saved.
selectFolder(confirmed) ==
    /\ Len(extra) < MaxRecords
    /\ IF confirmed
       THEN LET state == [legacy EXCEPT !.currentFolder = Some(UploadName)]
            IN  /\ legacy' = state
                /\ extra' = saveCurrentFolderData(state, extra)
       ELSE UNCHANGED <<legacy, extra>>
    /\ UNCHANGED <<appAll, optVars, dbDeleted, batchVars, canvasVars, responseVars, laterVars>>

\* performOCR: every image without a result is sent to the OCR service; a
\* failed request is skipped.  The result of the displayed image (the
\* first) seeds its annotation list when that list is empty.  The folder
\* data is saved at the end.
performOCR(resA, resB) ==
    /\ Len(extra) < MaxRecords
    /\ IsSome(legacy.currentFolder)
    /\ KeyCount(legacy.ocrResults) # Len(ImageNames)
    /\ LET results == [a |-> IF IsSome(legacy.ocrResults.a) THEN legacy.ocrResults.a ELSE resA,
                       b |-> IF IsSome(legacy.ocrResults.b) THEN legacy.ocrResults.b ELSE resB]
           seeded1 == IF legacy.ocrResults.a = None /\ IsSome(resA)
                         /\ ListOf(legacy.annotations, "a") = <<>>
                      THEN [legacy.annotations EXCEPT !.a = resA]
                      ELSE legacy.annotations
           state == [legacy EXCEPT !.ocrResults = results, !.annotations = seeded1]
       IN  /\ legacy' = state
           /\ extra' = saveCurrentFolderData(state, extra)
    /\ UNCHANGED <<appAll, optVars, dbDeleted, batchVars, canvasVars, responseVars, laterVars>>

(* ----------------------- APIManager: callers --------------------------- *)

\* A caller awaits batchOCR(imageFiles).
callBatchOCR ==
    /\ summary = None
    /\ summary' = Some(batchOCR(request.imageFiles, request.outcomes))
    /\ UNCHANGED <<request, appAll, layerVars, poolVars, canvasVars, responseVars, laterVars>>

\* A caller awaits processLocalImageFolder(imageFiles).
callProcessLocalImageFolder ==
    /\ summary = None
    /\ summary' = Some(processLocalImageFolder(request.imageFiles, request.outcomes))
    /\ UNCHANGED <<request, appAll, layerVars, poolVars, canvasVars, responseVars, laterVars>>

(* ----------------------- BatchProcessor: steps ------------------------- *)

\* batchOCRProcess up to the first await of every worker: the queue is
\* built and each worker takes a job off its head.
batchOCRProcess(rebuilt) ==
    /\ taskStatus = "none"
    /\ taskStatus' = "running"
    /\ rebuiltFiles' = rebuilt
    /\ queue' = [i \in 1..(JobCount - Cardinality(Workers)) |-> Cardinality(Workers) + i]
    /\ workers' = [w \in Workers |-> [pc |-> "running", job |-> w, attempt |-> 1]]
    /\ UNCHANGED <<attempts, waits, successful, failed>>
    /\ UNCHANGED <<appAll, layerVars, apiVars, canvasVars, responseVars, laterVars>>

\* How an attempt of job j can end: the processor rejects when no file of
\* the batch can be rebuilt; otherwise it returns, or the timeout fires
\* first.
AttemptOutcomes(j) ==
    LET files == FileObjects(j, rebuiltFiles)
    IN  IF files = <<>> THEN {[kind |-> "rejected"]}
        ELSE {[kind |-> "timeout"]}
             \cup {[kind |-> "returned", outcomes |-> o] :
                      o \in [1..Len(files) -> FileOutcomes]}

\* The Promise.race of executeJobWithRetry settles for worker w.
executeJobWithRetry(w, outcome) ==
    /\ workers[w].pc = "running"
    /\ LET j == workers[w].job
           attempt == workers[w].attempt
           error == [kind |-> outcome.kind, attempt |-> attempt]
           next == afterFailedAttempt(attempt)
       IN  /\ outcome \in AttemptOutcomes(j)
           /\ attempts' = [attempts EXCEPT ![j] = Append(@, error)]
           /\ IF outcome.kind = "returned"
              THEN /\ successful' =
                          Append(successful,
                                 [job |-> j,
                                  result |-> processOCRBatch(j, rebuiltFiles,
                                                             outcome.outcomes)])
                   /\ workers' = [workers EXCEPT ![w].pc = "pausing"]
                   /\ UNCHANGED <<waits, failed>>
              ELSE IF next.retry
              THEN /\ waits' = [waits EXCEPT ![j] = Append(@, next.wait)]
                   /\ workers' = [workers EXCEPT ![w].pc = "sleeping"]
                   /\ UNCHANGED <<successful, failed>>
              ELSE /\ failed' = Append(failed, [job |-> j, error |-> error])
                   /\ workers' = [workers EXCEPT ![w].pc = "pausing"]
                   /\ UNCHANGED <<waits, successful>>
    /\ UNCHANGED <<taskStatus, rebuiltFiles, queue>>
    /\ UNCHANGED <<appAll, layerVars, apiVars, canvasVars, responseVars, laterVars>>

\* A timer whose callback never resolves the promise: the worker stays
\* where it is.
sleepUnresolved(w) ==
    /\ workers[w].pc = "sleeping"
    /\ UNCHANGED workers
    /\ UNCHANGED <<taskStatus, rebuiltFiles, queue, attempts, waits, successful, failed>>
    /\ UNCHANGED <<appAll, layerVars, apiVars, canvasVars, responseVars, laterVars>>

\* The sleep between two attempts ends: the next attempt starts.
sleep(w) ==
    /\ workers[w].pc = "sleeping"
    /\ workers' = [workers EXCEPT ![w].pc = "running", ![w].attempt = @ + 1]
    /\ UNCHANGED <<taskStatus, rebuiltFiles, queue, attempts, waits, successful, failed>>
    /\ UNCHANGED <<appAll, layerVars, apiVars, canvasVars, responseVars, laterVars>>

\* A loop that reads the head of the queue and leaves it there.
createWorkerPeeking(w) ==
    /\ workers[w].pc = "pausing"
    /\ IF Len(queue) > 0
       THEN workers' = [workers EXCEPT ![w] =
                           [pc |-> "running", job |-> Head(queue), attempt |-> 1]]
       ELSE workers' = [workers EXCEPT ![w] = ExitedWorker]
    /\ UNCHANGED <<taskStatus, rebuiltFiles, queue, attempts, waits, successful, failed>>
    /\ UNCHANGED <<appAll, layerVars, apiVars, canvasVars, responseVars, laterVars>>

\* createWorker after its sleep(100): the loop takes the next job off the
\* queue, or ends when the queue is empty.
createWorker(w) ==
    /\ workers[w].pc = "pausing"
    /\ IF Len(queue) > 0
       THEN /\ workers' = [workers EXCEPT ![w] =
                              [pc |-> "running", job |-> Head(queue), attempt |-> 1]]
            /\ queue' = Tail(queue)
       ELSE /\ workers' = [workers EXCEPT ![w] = ExitedWorker]
            /\ UNCHANGED queue
    /\ UNCHANGED <<taskStatus, rebuiltFiles, attempts, waits, successful, failed>>
    /\ UNCHANGED <<appAll, layerVars, apiVars, canvasVars, responseVars, laterVars>>

\* processBatchQueue: Promise.all(workers) resolves and the task completes.
processBatchQueue ==
    /\ taskStatus = "running"
    /\ \A w \in Workers : workers[w].pc = "exited"
    /\ taskStatus' = "completed"
    /\ UNCHANGED <<rebuiltFiles, queue, workers, attempts, waits, successful, failed>>
    /\ UNCHANGED <<appAll, layerVars, apiVars, canvasVars, responseVars, laterVars>>

(* ------------------------- CanvasManager ------------------------------- *)

\* originalToDisplayCoords(rectangle) is called.
originalToDisplay ==
    /\ converted.toDisplay = None
    /\ converted' = [converted EXCEPT
                        !.toDisplay = Some(originalToDisplayCoords(rectangle, canvasInfo))]
    /\ UNCHANGED <<rectangle, canvasInfo, appAll, layerVars, batchVars, responseVars, laterVars>>

\* displayToOriginalCoords(rectangle) is called.
displayToOriginal ==
    /\ converted.toOriginal = None
    /\ converted' = [converted EXCEPT
                        !.toOriginal = Some(displayToOriginalCoords(rectangle, canvasInfo))]
    /\ UNCHANGED <<rectangle, canvasInfo, appAll, layerVars, batchVars, responseVars, laterVars>>

\* displayToOriginalCoords is called on what originalToDisplayCoords
\* returned for the rectangle.
displayToOriginalOfDisplay ==
    /\ IsSome(converted.toDisplay)
    /\ converted.roundTrip = None
    /\ converted' = [converted EXCEPT
                        !.roundTrip = Some(displayToOriginalCoords(Get(converted.toDisplay),
                                                                   canvasInfo))]
    /\ UNCHANGED <<rectangle, canvasInfo, appAll, layerVars, batchVars, responseVars, laterVars>>

(* -------------------- APIManager: OCR response ------------------------- *)

\* processPaddleOCRResponse is called on the response.
paddleOCRResponse ==
    /\ normalized = None
    /\ normalized' = Some(FormatItems(response))
    /\ UNCHANGED <<response, appAll, layerVars, batchVars, canvasVars, laterVars>>

(* ------------- OptimizedStorageManager: cached calls ------------------- *)

\* saveFolder(folderData) for a folder without images: the metadata record
\* is put, the annotations are saved when the property is there, and the
\* saved record is written to the cache.  anns is None without the property.
saveFolderCached(folderId, anns) ==
    LET savedFolder == FolderValue(folderId, None)
        written == updateMemoryCache(cacheMap, CacheKey(folderId), savedFolder)
    IN  /\ folderRecords' = [folderRecords EXCEPT ![folderId] = Some(savedFolder)]
        /\ annotationRecords' =
               IF IsSome(anns) /\ Get(anns) # {}
               THEN [annotationRecords EXCEPT ![folderId] = Get(anns)]
               ELSE annotationRecords
        /\ cacheMap' = written
        /\ recency' = Used(recency, CacheKey(folderId), MapKeys(written))
        /\ returned' = Some(savedFolder)
        /\ UNCHANGED <<appAll, layerVars, batchVars, canvasVars, responseVars, asyncVars, backupVars>>

\* saveAnnotationData(folderId, annotations) called on its own: the records
\* are put; the cache is not touched.
saveAnnotations(folderId, anns) ==
    /\ annotationRecords' =
           IF anns # {} THEN [annotationRecords EXCEPT ![folderId] = anns]
           ELSE annotationRecords
    /\ returned' = None
    /\ UNCHANGED <<folderRecords, cacheMap, recency>>
    /\ UNCHANGED <<appAll, layerVars, batchVars, canvasVars, responseVars, asyncVars, backupVars>>

\* getFolderById(folderId, {includeImages, includeAnnotations}): the value
\* of the Map for the key when it is there and no images are asked for;
\* otherwise the record of the store with the annotations of the store,
\* written to the cache unless images were asked for.
getFolderByIdCached(folderId, includeImages, includeAnnotations) ==
    LET cacheKey == CacheKey(folderId)
    IN  IF MapHas(cacheMap, cacheKey) /\ ~includeImages
        THEN /\ returned' = Some(MapGet(cacheMap, cacheKey))
             /\ recency' = Used(recency, cacheKey, MapKeys(cacheMap))
             /\ UNCHANGED <<folderRecords, annotationRecords, cacheMap>>
             /\ UNCHANGED <<appAll, layerVars, batchVars, canvasVars, responseVars, asyncVars, backupVars>>
        ELSE IF folderRecords[folderId] = None
        THEN /\ returned' = None
             /\ UNCHANGED <<folderRecords, annotationRecords, cacheMap, recency>>
             /\ UNCHANGED <<appAll, layerVars, batchVars, canvasVars, responseVars, asyncVars, backupVars>>
        ELSE LET result == FolderValue(folderId,
                               IF includeAnnotations
                               THEN Some(annotationRecords[folderId]) ELSE None)
                 written == IF includeImages THEN cacheMap
                            ELSE updateMemoryCache(cacheMap, cacheKey, result)
             IN  /\ returned' = Some(result)
                 /\ cacheMap' = written
                 /\ recency' = IF includeImages THEN recency
                               ELSE Used(recency, cacheKey, MapKeys(written))
                 /\ UNCHANGED <<folderRecords, annotationRecords>>
                 /\ UNCHANGED <<appAll, layerVars, batchVars, canvasVars, responseVars, asyncVars, backupVars>>

(* ------------- CalibrationApp: handlers and their awaits --------------- *)

\* The requests the model lets be in flight at a time.
MaxPending == 2

\* currentImageIndex names an image (imageFiles[currentImageIndex] is defined).
IndexInRange == currentImageIndex \in 1..Len(ImageNames)

\* A request of saveFolder: the record put, cloned when the request is
\* made, and the move that follows it (0: none, the request of
\* saveAllAnnotations).
SaveRequest(folder, step) == [record |-> FolderRecord(folder), step |-> step]

\* saveAllAnnotations up to its await, called by a handler that has set
\* hasChanges: the folder object is rebuilt from the Map anns and put.
SaveAllBegins(folder, anns) ==
    LET saved == saveAllFolder(folder, anns)
    IN  /\ Len(pending) < MaxPending
        /\ folderData' = Some(saved)
        /\ aliased' = saveAllAliased(anns)
        /\ pending' = Append(pending, SaveRequest(saved, 0))
        /\ hasChanges' = TRUE
        /\ UNCHANGED db

\* addNewTextItem up to the await of its save; Date.now() returns t
addNewTextItemBegin(t) ==
    /\ open
    /\ IndexInRange
    /\ ManualTotal(annotations) < MaxManual
    /\ now' = t
    /\ LET newAnnotation == [id |-> t, text |-> "", region |-> DefaultRegion,
                             isManual |-> TRUE]
           list == Append(ListOf(annotations, CurrentFileName), newAnnotation)
           anns == [annotations EXCEPT ![CurrentFileName] = Some(list)]
           page == Displayed(list, CurrentFileName)
       IN  /\ annotations' = anns
           /\ textCount' = page.textCount
           /\ charCount' = page.charCount
           /\ domImg' = page.domImg
           /\ SaveAllBegins(Get(folderData), anns)
    /\ UNCHANGED <<dashVars, open, currentImageIndex, imageInfo, drawingState, seeded>>
    /\ UNCHANGED <<layerVars, batchVars, canvasVars, responseVars, cacheVars, backupVars>>

\* clearAllText, confirmed, up to the await of its save
clearAllTextBegin ==
    /\ open
    /\ IndexInRange
    /\ LET anns == [annotations EXCEPT ![CurrentFileName] = Some(<<>>)]
           page == Displayed(<<>>, CurrentFileName)
       IN  /\ annotations' = anns
           /\ textCount' = page.textCount
           /\ charCount' = page.charCount
           /\ domImg' = page.domImg
           /\ SaveAllBegins(Get(folderData), anns)
    /\ UNCHANGED <<now, dashVars, open, currentImageIndex, imageInfo, drawingState,
                   seeded>>
    /\ UNCHANGED <<layerVars, batchVars, canvasVars, responseVars, cacheVars, backupVars>>

\* Click on the delete button of the i-th item, up to the await of the save
deleteClickBegin(i) ==
    /\ open
    /\ IndexInRange
    /\ IsSome(domImg)
    /\ i \in 1..Len(ListOf(annotations, Get(domImg)))
    /\ LET annotationId == ListOf(annotations, Get(domImg))[i].id
           anns == deleteAnnotation(annotations, CurrentFileName, annotationId)
           page == Displayed(ListOf(anns, CurrentFileName), CurrentFileName)
       IN  /\ annotations' = anns
           /\ textCount' = page.textCount
           /\ charCount' = page.charCount
           /\ domImg' = page.domImg
           /\ SaveAllBegins(Get(folderData), anns)
    /\ UNCHANGED <<now, dashVars, open, currentImageIndex, imageInfo, drawingState,
                   seeded>>
    /\ UNCHANGED <<layerVars, batchVars, canvasVars, responseVars, cacheVars, backupVars>>

\* Input event on the textarea of the i-th item, up to the await of the save
inputTextBegin(i, value) ==
    /\ open
    /\ IndexInRange
    /\ IsSome(domImg)
    /\ i \in 1..Len(ListOf(annotations, Get(domImg)))
    /\ LET list == ListOf(annotations, Get(domImg))
           anns == [annotations EXCEPT ![Get(domImg)] =
                       Some([list EXCEPT ![i].text = value])]
           stats == updateTextStats(anns, CurrentFileName)
           newFolderData == [Get(folderData) EXCEPT
                                !.ocrResults = SyncOcrWord(@, CurrentFileName,
                                                            list[i].id, value)]
       IN  /\ annotations' = anns
           /\ textCount' = stats.textCount
           /\ charCount' = stats.charCount
           /\ SaveAllBegins(newFolderData, anns)
    /\ UNCHANGED <<now, dashVars, open, currentImageIndex, imageInfo, drawingState,
                   domImg, seeded>>
    /\ UNCHANGED <<layerVars, batchVars, canvasVars, responseVars, cacheVars, backupVars>>

\* The part of nextImage / previousImage after the await of
\* saveCurrentAnnotations: the index moves by step and loadCurrentImage
\* runs, which returns at once when the index names no image.
MoveAndLoad(step, anns, al, ocrResults, t) ==
    /\ currentImageIndex' = currentImageIndex + step
    /\ IF currentImageIndex + step \in 1..Len(ImageNames)
       THEN LoadInto(TRUE, currentImageIndex + step, anns, al, ocrResults, t)
       ELSE UNCHANGED <<now, annotations, aliased, imageInfo, textCount, charCount,
                        domImg, seeded>>

\* nextImage (step = 1) and previousImage (step = -1) up to the first await
\* that gives way to other events: with hasChanges the request of
\* saveCurrentAnnotations is made and the handler waits for it; without, or
\* when saveCurrentAnnotations throws on an index that names no image, the
\* handler goes on to move and load.
NavigateBegin(step, t) ==
    /\ open
    /\ IF step = 1 THEN currentImageIndex < Len(ImageNames) ELSE currentImageIndex > 1
    /\ IF hasChanges /\ IndexInRange
       THEN LET folder == saveCurrentFolder(Get(folderData), annotations, CurrentFileName)
            IN  /\ Len(pending) < MaxPending
                /\ folderData' = Some(folder)
                /\ aliased' = IF IsSome(annotations[CurrentFileName])
                              THEN aliased \cup {CurrentFileName}
                              ELSE aliased \ {CurrentFileName}
                /\ pending' = Append(pending, SaveRequest(folder, step))
                /\ UNCHANGED <<now, db, annotations, currentImageIndex, imageInfo,
                               hasChanges, textCount, charCount, domImg, seeded>>
       ELSE /\ MoveAndLoad(step, annotations, aliased, Get(folderData).ocrResults, t)
            /\ UNCHANGED <<db, folderData, hasChanges, pending>>
    /\ UNCHANGED <<dashVars, open, drawingState>>
    /\ UNCHANGED <<layerVars, batchVars, canvasVars, responseVars, cacheVars, backupVars>>

nextImageBegin(t) == NavigateBegin(1, t)

previousImageBegin(t) == NavigateBegin(-1, t)

\* The oldest request succeeds: the record is in the store and the handler
\* that awaited it goes on: hasChanges is cleared, and a navigation moves
\* and loads.
requestSettles(t) ==
    /\ open
    /\ pending # <<>>
    /\ db' = Head(pending).record
    /\ pending' = Tail(pending)
    /\ hasChanges' = FALSE
    /\ IF Head(pending).step = 0
       THEN UNCHANGED <<now, annotations, aliased, currentImageIndex, imageInfo,
                        textCount, charCount, domImg, seeded>>
       ELSE MoveAndLoad(Head(pending).step, annotations, aliased,
                        Get(folderData).ocrResults, t)
    /\ UNCHANGED <<dashVars, open, folderData, drawingState>>
    /\ UNCHANGED <<layerVars, batchVars, canvasVars, responseVars, cacheVars, backupVars>>

(* ------------------ StorageManager: export and import ------------------ *)

\* The keys the generator hands out in the model.
MaxKey == 2

\* The folder objects the pages pass to saveFolder: id 0 stands for an
\* object without id.
SavedFolderInputs ==
    [ id : 0..MaxKey,
      name : {UploadName, DefaultFolderName},
      folderName : {Undefined},
      status : {Undefined, "processed"},
      imageFiles : {ImageNames},
      ocrResults : {EmptyMap, [EmptyMap EXCEPT !.a = Some(<<"ni">>)]},
      annotations : {EmptyMap} ]

\* saveFolder on the store: put under the object's id when it has one, add
\* under a generated key otherwise.  The record is the newest of the store.
\* Requests succeed.
storeSaveFolder(store, folder) ==
    LET key == IF folder.id # 0 THEN folder.id ELSE store.generator + 1
        record == FolderRecord([folder EXCEPT !.id = key])
    IN  [ records |-> <<record>> \o Filter(store.records, key),
          generator |-> Max2(store.generator, key),
          saved |-> record ]

\* getAllFolders: the records sorted by updatedAt, newest first.
getAllFolders == folderStore

\* The loop of importData over data.folders: each folder is saved and a
\* result is pushed.
RECURSIVE ImportFolders(_, _, _)
ImportFolders(store, list, results) ==
    IF list = <<>> THEN [store |-> store, results |-> results]
    ELSE LET after == storeSaveFolder(store, Head(list))
         IN  ImportFolders(after, Tail(list),
                           Append(results, [success |-> TRUE, folder |-> after.saved]))

\* A page saves a folder.
callSaveFolder(folder) ==
    /\ folder.id # 0 \/ keyGenerator < MaxKey
    /\ LET after == storeSaveFolder([records |-> folderStore, generator |-> keyGenerator],
                                    folder)
       IN  /\ folderStore' = after.records
           /\ keyGenerator' = after.generator
    /\ importResults' = None
    /\ UNCHANGED exportedDoc
    /\ UNCHANGED <<appAll, layerVars, batchVars, canvasVars, responseVars, cacheVars, asyncVars>>

\* exportAllData
exportAllData ==
    /\ exportedDoc' = Some(getAllFolders)
    /\ importResults' = None
    /\ UNCHANGED <<folderStore, keyGenerator>>
    /\ UNCHANGED <<appAll, layerVars, batchVars, canvasVars, responseVars, cacheVars, asyncVars>>

\* clearAllData: store.clear() removes the records; the key generator
\* keeps its value.
clearAllData ==
    /\ folderStore' = <<>>
    /\ importResults' = None
    /\ UNCHANGED <<keyGenerator, exportedDoc>>
    /\ UNCHANGED <<appAll, layerVars, batchVars, canvasVars, responseVars, cacheVars, asyncVars>>

\* importData of the exported document.
importData ==
    /\ IsSome(exportedDoc)
    /\ LET done == ImportFolders([records |-> folderStore, generator |-> keyGenerator],
                                 Get(exportedDoc), <<>>)
       IN  /\ folderStore' = done.store.records
           /\ keyGenerator' = done.store.generator
           /\ importResults' = Some(done.results)
    /\ UNCHANGED exportedDoc
    /\ UNCHANGED <<appAll, layerVars, batchVars, canvasVars, responseVars, cacheVars, asyncVars>>

(* ------------------------------- Next ---------------------------------- *)

\* OCR of the uploaded folder; every stored image can be rebuilt.
ProcessStep ==
    \E confirmed \in BOOLEAN, outA \in OcrOutcomes.a, outB \in OcrOutcomes.b,
       tA \in ClockValues, tB \in ClockValues :
        tA <= tB /\ processSingleFolder(confirmed, ImgSet, outA, outB, tA, tB)

\* The handlers of one calibration page.  Images may fail to load; every
\* store request succeeds.
PageStep ==
    \/ \E loaded \in BOOLEAN, t \in ClockValues : loadFolderData(loaded, t)
    \/ saveKey(TRUE)
    \/ \E loaded \in BOOLEAN, t \in ClockValues : nextImage(TRUE, loaded, t)
    \/ \E loaded \in BOOLEAN, t \in ClockValues : previousImage(TRUE, loaded, t)
    \/ \E t \in ClockValues : addNewTextItem(TRUE, t)
    \/ clearAllText(TRUE)
    \/ \E i \in 1..Len(DomList) : deleteClick(i, TRUE)
    \/ \E i \in 1..Len(DomList), value \in TextValues : inputText(i, value, TRUE)
    \/ \E start \in DragStarts : handleMouseDown(start)
    \/ \E end \in DragEnds, t \in ClockValues : handleMouseUp(end, t)

\* One folder is processed and then calibrated on one calibration page.
Next == ProcessStep \/ PageStep

Spec == Init /\ [][Next]_vars

\* The handlers of one calibration page whose store requests may fail;
\* every image loads.
SaveStep ==
    \/ \E t \in ClockValues : loadFolderData(TRUE, t)
    \/ \E written \in BOOLEAN : saveKey(written)
    \/ \E written \in BOOLEAN, t \in ClockValues : nextImage(written, TRUE, t)
    \/ \E written \in BOOLEAN, t \in ClockValues : previousImage(written, TRUE, t)
    \/ \E written \in BOOLEAN, t \in ClockValues : addNewTextItem(written, t)
    \/ \E written \in BOOLEAN : clearAllText(written)
    \/ \E i \in 1..Len(DomList), written \in BOOLEAN : deleteClick(i, written)
    \/ \E i \in 1..Len(DomList), value \in TextValues, written \in BOOLEAN :
          inputText(i, value, written)
    \/ \E start \in DragStarts : handleMouseDown(start)
    \/ \E end \in DragEnds, t \in ClockValues : handleMouseUp(end, t)
    \/ \E written \in BOOLEAN, writtenStatus \in BOOLEAN :
          completeCalibration(written, writtenStatus)

NextSave == ProcessStep \/ SaveStep

SpecSave == Init /\ [][NextSave]_vars

\* The dashboard page, and calibration pages opened from it or in another
\* tab; every image loads and every store request succeeds.
DashStep ==
    \/ loadFolders
    \/ reprocessFolder
    \/ exportCalibratedData
    \/ \E t \in ClockValues : loadFolderData(TRUE, t)
    \/ goBack
    \/ \E t \in ClockValues : addNewTextItem(TRUE, t)
    \/ completeCalibration(TRUE, TRUE)

NextDash == ProcessStep \/ DashStep

SpecDash == Init /\ [][NextDash]_vars

\* The chunked layer used for whole folders: save, load, reload, delete;
\* and the delete of the dashboard.
NextOpt ==
    \/ \E folder \in FolderInputs, outcome \in AddOutcomes : OptimizedSaveFolder(folder, outcome)
    \/ \E includeImages \in BOOLEAN, includeAnnotations \in BOOLEAN :
          OptimizedGetFolderById(includeImages, includeAnnotations)
    \/ reloadPage
    \/ \E folderIds \in SUBSET {FolderId} : deleteFolders(folderIds)
    \/ \E confirmed \in BOOLEAN : deleteFolder(confirmed)

SpecOpt == Init /\ [][NextOpt]_vars

\* Saves of one image through processBatchImages, two of them possibly in
\* flight at the same time, and reads of the folder's images.
RangeInputs == {None, Some(<<0, 1>>)}

PayloadTags == {"P", "Q"}

NextChunks ==
    \/ \E p \in Savers, tag \in PayloadTags, n \in PayloadLengths : beginSave(p, tag, n)
    \/ \E p \in Savers, ok \in BOOLEAN : deleteStep(p, ok)
    \/ \E p \in Savers, outcome \in AddOutcomes : addStep(p, outcome)
    \/ \E range \in RangeInputs : readImages(range)

SpecChunks == Init /\ [][NextChunks]_vars

\* The legacy tool and the dashboard work on the same store; requests
\* succeed.
LegacyStep ==
    \/ \E confirmed \in BOOLEAN : selectFolder(confirmed)
    \/ \E resA \in {None} \cup {Some(w) : w \in OcrOutcomes.a},
          resB \in {None} \cup {Some(w) : w \in OcrOutcomes.b} : performOCR(resA, resB)

NextLegacy ==
    \/ LegacyStep
    \/ ProcessStep
    \/ DashStep
SpecLegacy == Init /\ [][NextLegacy]_vars

\* The dashboard page and a calibration page for a folder in which some
\* image file is empty: FileReader gives the data URL "data:" for it, and
\* processSingleFolder cannot rebuild a File from that.
ProcessFilesStep ==
    \E confirmed \in BOOLEAN, rebuilt \in SUBSET ImgSet,
       outA \in OcrOutcomes.a, outB \in OcrOutcomes.b,
       tA \in ClockValues, tB \in ClockValues :
        tA <= tB /\ processSingleFolder(confirmed, rebuilt, outA, outB, tA, tB)

NextFiles ==
    \/ ProcessFilesStep
    \/ loadFolders
    \/ reprocessFolder
    \/ exportCalibratedData
    \/ \E loaded \in BOOLEAN, t \in ClockValues : loadFolderData(loaded, t)
    \/ goBack
    \/ \E t \in ClockValues : addNewTextItem(TRUE, t)
    \/ completeCalibration(TRUE, TRUE)

SpecFiles == Init /\ [][NextFiles]_vars

\* The results a caller passes to updateFolderOCRResults: one image's, or
\* every image's.
OcrUpdates ==
    { [EmptyMap EXCEPT !.a = Some(processPaddleOCRResponse(<<>>, 0))],
      [img \in ImgSet |-> Some(processPaddleOCRResponse(<<>>, 0))] }

\* The dashboard and calibration pages, and a caller of the store's
\* updateFolderOCRResults.
NextUpdate ==
    \/ ProcessStep
    \/ DashStep
    \/ \E results \in OcrUpdates : updateFolderOCRResults(results)

SpecUpdate == Init /\ [][NextUpdate]_vars

\* Reads of the images of a folder whose chunk sets may be incomplete.
NextRead == \E range \in RangeInputs : readImages(range)

SpecRead == InitRead /\ [][NextRead]_vars

\* Calls into the chunked layer for several folders, one after another.
NextCache ==
    \/ \E folderId \in FolderIds, anns \in {None} \cup {Some(o) : o \in AnnotationObjects} :
           saveFolderCached(folderId, anns)
    \/ \E folderId \in FolderIds, anns \in AnnotationObjects : saveAnnotations(folderId, anns)
    \/ \E folderId \in FolderIds, includeImages \in BOOLEAN, includeAnnotations \in BOOLEAN :
           getFolderByIdCached(folderId, includeImages, includeAnnotations)

SpecCache == Init /\ [][NextCache]_vars

(* ------------------------------ claims --------------------------------- *)

\* The same as Init, with a list of files to hand to a batch operation.
InitApi ==
    /\ PagesInit /\ LaterInit /\ OptInit /\ LegacyInit /\ BatchInit /\ CanvasInit /\ ResponseInit
    /\ \E r \in Requests : ApiInitWith(r)

\* One batch operation of APIManager is called on the list.
NextApi == callBatchOCR \/ callProcessLocalImageFolder

SpecApi == InitApi /\ [][NextApi]_vars

\* One batch task of BatchProcessor.
NextPool ==
    \/ \E rebuilt \in SUBSET ImgSet : batchOCRProcess(rebuilt)
    \/ \E w \in Workers : \E outcome \in AttemptOutcomes(workers[w].job) :
          executeJobWithRetry(w, outcome)
    \/ \E w \in Workers : sleep(w)
    \/ \E w \in Workers : createWorker(w)
    \/ processBatchQueue

SpecPool == Init /\ [][NextPool]_vars

\* The same as Init, with a canvas and a rectangle to convert.
InitCanvas ==
    /\ PagesInit /\ LaterInit /\ OptInit /\ LegacyInit /\ ApiInit /\ BatchInit /\ ResponseInit
    /\ \E r \in RegionInputs, info \in InfoInputs : CanvasInitWith(r, info)

\* The conversions of CanvasManager applied to the rectangle.
NextCanvas == originalToDisplay \/ displayToOriginal \/ displayToOriginalOfDisplay

SpecCanvas == InitCanvas /\ [][NextCanvas]_vars

\* The same as Init, with a response of one item whose region is a
\* quadrilateral.
InitBbox ==
    /\ PagesInit /\ LaterInit /\ OptInit /\ LegacyInit /\ ApiInit /\ BatchInit /\ CanvasInit
    /\ \E bbox \in QuadInputs : ResponseInitWith(<<[text |-> "t", text_region |-> bbox]>>)

\* The response is processed.
NextBbox == paddleOCRResponse

SpecBbox == InitBbox /\ [][NextBbox]_vars

\* The same as Init, with a response whose items may lack a region.
InitResponse ==
    /\ PagesInit /\ LaterInit /\ OptInit /\ LegacyInit /\ ApiInit /\ BatchInit /\ CanvasInit
    /\ \E items \in ResponseInputs : ResponseInitWith(items)

NextResponse == paddleOCRResponse

SpecResponse == InitResponse /\ [][NextResponse]_vars

\* The pool under the scheduling of the event loop: a timer that was set
\* fires, a race with a timeout settles, and a continuation that is ready
\* runs.
PoolFairness ==
    /\ \A w \in Workers :
           /\ WF_vars(\E outcome \in AttemptOutcomes(workers[w].job) :
                          executeJobWithRetry(w, outcome))
           /\ WF_vars(sleep(w))
           /\ WF_vars(createWorker(w))
    /\ WF_vars(processBatchQueue)

SpecPoolFair == Init /\ [][NextPool]_vars /\ PoolFairness

\* The handlers of one calibration page with their store requests in
\* flight: a handler runs up to its await, other events are handled, and
\* the requests settle in the order they were made.  Every image loads and
\* every request succeeds.
AsyncStep ==
    \/ \E t \in ClockValues : loadFolderData(TRUE, t)
    \/ \E t \in ClockValues : addNewTextItemBegin(t)
    \/ clearAllTextBegin
    \/ \E i \in 1..Len(DomList) : deleteClickBegin(i)
    \/ \E i \in 1..Len(DomList), value \in TextValues : inputTextBegin(i, value)
    \/ \E start \in DragStarts : handleMouseDown(start)
    \/ \E end \in DragEnds, t \in ClockValues : IndexInRange /\ handleMouseUp(end, t)
    \/ \E t \in ClockValues : nextImageBegin(t)
    \/ \E t \in ClockValues : previousImageBegin(t)
    \/ \E t \in ClockValues : requestSettles(t)

NextAsync == ProcessStep \/ AsyncStep

SpecAsync == Init /\ [][NextAsync]_vars

\* A database in which the payload of image "a" was stored completely by
\* an earlier session; no call is in flight.
InitResave ==
    /\ PagesInit /\ LaterInit /\ LegacyInit /\ ApiInit /\ BatchInit /\ CanvasInit /\ ResponseInit
    /\ OptInitWith(ChunkRecords(FolderId, StoredImages[1], 0))

\* The image is saved again, by one call or by two calls at a time.
NextResave ==
    \/ \E p \in Savers, tag \in PayloadTags, n \in PayloadLengths : beginSave(p, tag, n)
    \/ \E p \in Savers, ok \in BOOLEAN : deleteStep(p, ok)
    \/ \E p \in Savers, outcome \in AddOutcomes : addStep(p, outcome)

SpecResave == InitResave /\ [][NextResave]_vars

\* The backup operations of the store.
NextBackup ==
    \/ \E folder \in SavedFolderInputs : callSaveFolder(folder)
    \/ exportAllData
    \/ clearAllData
    \/ importData

SpecBackup == Init /\ [][NextBackup]_vars

\* A navigation step of the calibration page (nextImage or previousImage).
NavigationStep ==
    \E written \in BOOLEAN, loaded \in BOOLEAN, t \in ClockValues :
        nextImage(written, loaded, t) \/ previousImage(written, loaded, t)

\* C1: seeding is idempotent - once an image has a list in the Map, loading
\* that image again (navigating to it) leaves the list exactly as it was.
C1_SeedIdempotent ==
    [][NavigationStep =>
         \A img \in ImgSet :
            IsSome(annotations[img]) => annotations'[img] = annotations[img]]_vars

\* The step loads image img and converts its OCR result into annotations.
ConvertsOcr(img) ==
    \/ /\ \E t \in ClockValues : loadFolderData(TRUE, t)
       /\ img = ImageNames[1]
       /\ SeedsFromOcr([x \in ImgSet |->
                           IF IsSome(db.annotations[x])
                           THEN Some(Get(db.annotations[x]).textRegions)
                           ELSE None],
                       db.ocrResults, img)
    \/ /\ \E written \in BOOLEAN, t \in ClockValues :
              nextImage(written, TRUE, t) \/ previousImage(written, TRUE, t)
       /\ img = ImageNames[currentImageIndex']
       /\ SeedsFromOcr(annotations, Get(folderData).ocrResults, img)

\* C2: the OCR result of an image is converted into annotations at most once
\* in the folder's lifetime - an image whose OCR result has been converted
\* is never converted again, also after its list was emptied.
C2_SeedAtMostOnce ==
    [][\A img \in seeded : ~ConvertsOcr(img)]_vars

\* C3: no two annotations of one image's list have the same id.
C3_UniqueIds ==
    \A img \in ImgSet :
        LET list == ListOf(annotations, img)
        IN  \A i, j \in 1..Len(list) : i # j => list[i].id # list[j].id

\* A step whose store request fails although there is something to write.
FailedWrite ==
    \/ hasChanges /\ saveKey(FALSE)
    \/ hasChanges /\ \E t \in ClockValues :
                        nextImage(FALSE, TRUE, t) \/ previousImage(FALSE, TRUE, t)
    \/ \E t \in ClockValues : addNewTextItem(FALSE, t)
    \/ clearAllText(FALSE)
    \/ \E i \in 1..Len(DomList) : deleteClick(i, FALSE)
    \/ \E i \in 1..Len(DomList), value \in TextValues : inputText(i, value, FALSE)

\* C4: the session is marked saved only after the durable write succeeded -
\* when the store request of a save fails, hasChanges remains true.
C4_SavedOnlyAfterWrite ==
    [][FailedWrite => hasChanges']_vars

\* C5: the annotation operations of the calibration page never change the
\* folder's OCR results, neither in memory nor in the durable store.
C5_OcrResultsUntouched ==
    [][(open /\ PageStep) =>
         /\ db'.ocrResults = db.ocrResults
         /\ Get(folderData').ocrResults = Get(folderData).ocrResults]_vars

ReprocessStep ==
    \/ reprocessFolder
    \/ dashPc = "reprocess" /\ ProcessStep

\* C7: reprocessing a folder leaves the annotations of the durable record
\* exactly as they were in the store before, also when a calibration page
\* saved them after the dashboard last read the folder.
C7_ReprocessKeepsAnnotations ==
    [][ReprocessStep => db'.annotations = db.annotations]_vars

\* A seed, add, draw, delete, clear or edit on the current image.
StatsStep ==
    \/ \E t \in ClockValues : loadFolderData(TRUE, t)
    \/ \E t \in ClockValues : nextImage(TRUE, TRUE, t) \/ previousImage(TRUE, TRUE, t)
    \/ \E t \in ClockValues : addNewTextItem(TRUE, t)
    \/ clearAllText(TRUE)
    \/ \E i \in 1..Len(DomList) : deleteClick(i, TRUE)
    \/ \E i \in 1..Len(DomList), value \in TextValues : inputText(i, value, TRUE)
    \/ /\ \E end \in DragEnds, t \in ClockValues : handleMouseUp(end, t)
       /\ annotations' # annotations

\* C8: after every seed, add, draw, delete, clear and edit the displayed
\* count is the length of the current image's list and the displayed
\* character total is the sum of the text lengths over that list.
C8_StatsMatchList ==
    [][StatsStep =>
         LET list == ListOf(annotations', ImageNames[currentImageIndex'])
         IN  textCount' = Len(list) /\ charCount' = SumChars(list)]_vars

\* The page shows two annotations with four characters for the current image.
C8_Witness ==
    /\ open
    /\ Len(ListOf(annotations, CurrentFileName)) = 2
    /\ textCount = 2
    /\ charCount = 4

\* The id of the i-th item of the text list is not in the current image's list.
AbsentId(i) ==
    \A k \in 1..Len(ListOf(annotations, CurrentFileName)) :
        ListOf(annotations, CurrentFileName)[k].id # DomList[i].id

\* C9: a delete with an id that is not in the current image's list leaves
\* the Map unchanged - no list is altered and none is created.
C9_DeleteMissingIsNoOp ==
    [][\A i \in 1..Len(DomList) :
         (AbsentId(i) /\ deleteClick(i, TRUE)) => annotations' = annotations]_vars

\* C10: a drawn box is stored in the original-pixel space of the current
\* image - converted with the scale computed for that image.
C10_RegionsInOriginalSpace ==
    [][\A end \in DragEnds, t \in ClockValues :
         (handleMouseUp(end, t) /\ annotations' # annotations) =>
            LET list == ListOf(annotations', CurrentFileName)
            IN  list[Len(list)].region =
                    displayToOriginalCoords(calculateRegion(Get(drawingState), end),
                                            Some(loadImageToCanvas(CurrentFileName)))]_vars

\* A load of the folder that reads the durable stores (no cached entry is
\* returned) after a completed save of a folder object.
LoadsFromStore ==
    /\ IsSome(held)
    /\ \E includeImages \in BOOLEAN :
          /\ ~(IsSome(memoryCache) /\ ~includeImages)
          /\ OptimizedGetFolderById(includeImages, TRUE)

\* C11: in the chunked layer, loading a folder from the durable stores after
\* saving the folder object F returns an annotations object with exactly the
\* keys and lists of F.annotations, and F's ocrResults.
C11_SaveLoadRoundTrip ==
    [][LoadsFromStore =>
          /\ got'.annotations = Some(Get(held).annotations)
          /\ got'.ocrResults = Some(Get(held).ocrResults)]_vars

\* C12: the folder keeps the id of its first save, and the store holds one
\* record for it whatever saves follow: the record of the dashboard upload
\* keeps key 1, and the saves of the legacy tool create one record at most.
C12_OneRecordPerFolder == db.id = 1 /\ Len(extra) <= 1

\* The folder objects alive in the pages and the stored record.
FolderObjects ==
    {db} \cup (IF IsSome(dash) THEN {Get(dash)} ELSE {})
         \cup (IF IsSome(folderData) THEN {Get(folderData)} ELSE {})

\* C13: the display name stored with the folder record is the name given at
\* upload, and a folder object that carries both name and folderName
\* carries the same value in both.
C13_NameKept ==
    /\ db.folderName = UploadName
    /\ \A f \in FolderObjects :
          Truthy(f.name) /\ Truthy(f.folderName) => f.name = f.folderName

\* The counters of a folder object equal the sizes of its collections.
CountersMatch(f) ==
    /\ f.metadata.totalImages = Len(f.imageFiles)
    /\ f.metadata.processedImages = KeyCount(f.ocrResults)
    /\ f.metadata.calibratedImages = KeyCount(f.annotations)

\* C14: in the persisted record and in the folder object the dashboard
\* holds, totalImages, processedImages and calibratedImages equal the number
\* of imageFiles, of ocrResults keys and of annotations keys.
C14_CountersMatch ==
    /\ CountersMatch(db)
    /\ IsSome(dash) => CountersMatch(Get(dash))

\* The position of a status in the progression.
StatusRank(status) ==
    CASE status = "unprocessed" -> 0
      [] status = "processed" -> 1
      [] status = "calibrated" -> 2
      [] OTHER -> -1

\* C15: the stored status is unprocessed, processed or calibrated, and a
\* step that moves it backward belongs to reprocessFolder: its reset, or the
\* processSingleFolder it starts.
C15_StatusForward ==
    [][/\ StatusRank(db'.status) >= 0
       /\ StatusRank(db'.status) < StatusRank(db.status) =>
             reprocessFolder \/ (dashPc = "reprocess" /\ ProcessStep)]_vars

\* No save of the image is in flight.
Quiet == \A p \in Savers : saver[p].pc = "idle"

\* C16: after a payload of one of the lengths 0, 1, C-1, C, C+1, 10*C has
\* been saved for an image, reading the folder's images returns that image
\* with exactly that payload.
C16_ChunkRoundTrip ==
    [][Quiet /\ IsSome(lastSaved) /\ readImages(None) =>
          \E i \in 1..Len(Get(got'.imageFiles)) :
              /\ Get(got'.imageFiles)[i].name = "a"
              /\ Get(got'.imageFiles)[i].dataURL = Get(lastSaved)]_vars

\* The stored chunks of the image named n, and whether they are all there.
StoredOf(n) == {c \in imageChunks : c.folderId = FolderId /\ c.imageName = n}

CompleteSet(n) ==
    /\ StoredOf(n) # {}
    /\ \A c \in StoredOf(n) : Cardinality(StoredOf(n)) = c.totalChunks

\* The images an unfiltered read returned.
ReadBack == {Get(got.imageFiles)[i] : i \in 1..Len(Get(got.imageFiles))}

\* C17: getImageFiles completes, returns every image whose chunk set is
\* complete with its exact payload, and leaves out every image whose number
\* of stored chunks differs from totalChunks.
C17_PartialChunkIsolation ==
    [][readImages(None) =>
          /\ got'.kind = "images"
          /\ \A i \in 1..Len(StoredImages) :
                LET n == StoredImages[i].name
                    back == {x \in ReadBack' : x.name = n}
                IN  IF CompleteSet(n)
                    THEN back = {[name |-> n, dataURL |-> StoredImages[i].dataURL,
                                  originalIndex |-> i - 1]}
                    ELSE back = {}]_vars

\* One image has lost a chunk and the read returned the two others.
C17_Witness ==
    /\ got.kind = "images"
    /\ Cardinality(ReadBack) = 2
    /\ \E i \in 1..Len(StoredImages) :
          /\ StoredOf(StoredImages[i].name) # {}
          /\ ~CompleteSet(StoredImages[i].name)

\* The stored chunks of image n are those of one payload: every index from
\* 0 to totalChunks - 1, all with the same totalChunks.
WholeSet(n) ==
    /\ StoredOf(n) # {}
    /\ \E total \in 1..(10 * chunkSize) :
          /\ \A c \in StoredOf(n) : c.totalChunks = total
          /\ {c.chunkIndex : c \in StoredOf(n)} = 0..(total - 1)

\* A save of image "a" fails: the request of the delete, or the batch
\* transaction with the adds.
FailedChunkWrite ==
    \/ \E p \in Savers : deleteStep(p, FALSE)
    \/ \E p \in Savers, outcome \in AddOutcomes : addStep(p, outcome) /\ got'.kind = "addError"

\* C18: when the transaction writing an image's chunks fails, the store
\* holds for that image a complete chunk set or no chunk, never a part of
\* the chunks that were being written.
C18_NoPartialChunkSet ==
    [][FailedChunkWrite => StoredOf("a")' = {} \/ WholeSet("a")']_vars

\* A batch transaction has just failed and the store holds no chunk of the
\* image.
C18_Witness ==
    /\ got.kind = "addError"
    /\ StoredOf("a") = {}
    /\ lastSaved = None

\* A save of image "a" completes: the skipped empty payload, or the batch
\* transaction with the adds.
CompletedChunkWrite ==
    \/ \E p \in Savers, tag \in PayloadTags : beginSave(p, tag, 0)
    \/ \E p \in Savers, outcome \in AddOutcomes : addStep(p, outcome) /\ got'.kind = "saved"

\* C19: after a save of an image completed, the chunk records stored for
\* the image are exactly the chunks of the saved payload, whatever was
\* stored before and whatever other save of the image is in flight.
C19_FullReplace ==
    [][CompletedChunkWrite =>
          StoredOf("a")' =
              ChunkRecords(FolderId, [name |-> "a", dataURL |-> Get(lastSaved')], 0)]_vars

\* Nothing of the folder is left in the chunked layer.
NothingLeft ==
    /\ metaStore = None
    /\ {c \in imageChunks : c.folderId = FolderId} = {}
    /\ annotationStore = EmptyMap
    /\ memoryCache = None

\* C20: a delete of the folder cascades.  After deleteFolders was called
\* with the folder's id, the chunked layer holds no folder record, no chunk,
\* no annotation record and no cache entry of it; after the dashboard's
\* delete the record is gone from store 'folders' and from the dashboard.
C20_DeleteCascades ==
    [][/\ (\E folderIds \in SUBSET {FolderId} :
               FolderId \in folderIds /\ deleteFolders(folderIds)) => NothingLeft'
       /\ deleteFolder(TRUE) => dbDeleted' /\ dash' = None]_vars

\* Image img is not the current image of an open calibration page, neither
\* before nor after the step.
NotOnPage(img) ==
    /\ ~(open /\ CurrentFileName = img)
    /\ ~(open' /\ CurrentFileName' = img)

\* C21: an image gets an entry in the persisted annotations map only when
\* calibration touches it.  A step during which the image is not on the
\* calibration page leaves an image without entry without entry.
C21_EntryOnlyWhenTouched ==
    [][\A img \in ImgSet :
          (db.annotations[img] = None /\ NotOnPage(img))
              => db'.annotations[img] = None]_vars

\* The modifications of the reference definition, computed from the two
\* sections of an exported image: an image without OCR section has
\* originalCount 0 and no original texts.
ReferenceModifications(imageData) ==
    LET original == IF IsSome(imageData.originalOCR)
                    THEN Get(imageData.originalOCR).textRegions ELSE <<>>
        calibrated == Get(imageData.calibratedText).textRegions
        originalCount == Len(original)
        calibratedCount == Len(calibrated)
        manual == {i \in 1..Len(calibrated) : calibrated[i].isManuallyAdded}
        manualCount == Cardinality(manual)
        machine == (1..Len(calibrated)) \ manual
        nth(k) == CHOOSE i \in machine : Cardinality({j \in machine : j <= i}) = k
        machineTexts == [k \in 1..Cardinality(machine) |-> calibrated[nth(k)].text]
        originalTexts == [i \in 1..Len(original) |-> original[i].text]
    IN  [ textChanged |-> originalCount # calibratedCount \/ originalTexts # machineTexts,
          annotationsAdded |-> manualCount,
          annotationsDeleted |-> Max2(0, originalCount - (calibratedCount - manualCount)),
          totalEdits |-> Abs(originalCount - calibratedCount) + manualCount ]

\* C22: in every exported document, the modifications of each image that
\* has a calibratedText section equal the reference definition.
C22_ModificationsMatchReference ==
    IsSome(exported) =>
        \A img \in ImgSet :
            LET imageData == Get(exported).images[img]
            IN  IsSome(imageData.calibratedText)
                    => imageData.modifications = ReferenceModifications(imageData)

\* The list of image img in the durable store ([] when it has no entry).
StoredList(record, img) ==
    IF IsSome(record.annotations[img])
    THEN Get(record.annotations[img]).textRegions ELSE <<>>

\* The current image has edits that set hasChanges at some time and are not
\* in the durable store: its list in the Map holds a manual annotation the
\* stored list lacks, or lacks an annotation the stored list holds.
UnsavedChanges ==
    /\ open
    /\ LET list == ListOf(annotations, CurrentFileName)
           stored == StoredList(db, CurrentFileName)
       IN  \/ \E i \in 1..Len(list) :
                 list[i].isManual /\ \A j \in 1..Len(stored) : stored[j] # list[i]
           \/ \E j \in 1..Len(stored) : \A i \in 1..Len(list) : list[i] # stored[j]

\* C23: save before navigate.  When the user moves to the previous or next
\* image while the current image has changes that are not in the durable
\* store, the store holds the current image's list once the step has loaded
\* the target image.
C23_SaveBeforeNavigate ==
    [][(NavigationStep /\ UnsavedChanges) =>
          \A img \in ImgSet :
              img = CurrentFileName
                  => StoredList(db', img) = ListOf(annotations, img)]_vars

\* The paddleOCR calls made for a file of job j so far: every attempt of
\* the job runs batchOCR, which sends each file of the batch once.
PaddleCalls(j, name) ==
    IF name \in Names(FileObjects(j, rebuiltFiles)) THEN Len(attempts[j]) ELSE 0

\* C24: an image is recorded as a per-item failure only after the OCR call
\* for it has been made retryCount times, whether the calls failed with a
\* transport error or with a non-success status in the response.
C24_FailedItemWasRetried ==
    \A k \in 1..Len(successful) :
        \A e \in successful[k].result.errors :
            PaddleCalls(successful[k].job, e.fileName) = retryCount

\* The entries of the summary are those of the files of the request, and
\* the entry of every file whose call failed carries the field error.
OneEntryPerFile(s) ==
    /\ DOMAIN s.results = Names(request.imageFiles)
    /\ Cardinality(DOMAIN s.results) = Len(request.imageFiles)
    /\ \A i \in 1..Len(request.imageFiles) :
          request.outcomes[i] # "ok"
              <=> "error" \in DOMAIN s.results[request.imageFiles[i]]

\* The request is a non-empty list of files with distinct names and a batch
\* operation has ended.
DistinctRequestDone ==
    /\ IsSome(summary)
    /\ Len(request.imageFiles) > 0
    /\ \A i, j \in 1..Len(request.imageFiles) :
          request.imageFiles[i] = request.imageFiles[j] => i = j

\* C25 as stated: for a non-empty list of files with distinct names the
\* batch operation returns a summary with one entry per file, an error field
\* in every failed entry, and successCount + failureCount = totalFiles.
C25_SummaryWithFailureCount ==
    DistinctRequestDone =>
        LET s == Get(summary)
        IN  /\ ~s.thrown
            /\ OneEntryPerFile(s)
            /\ "failureCount" \in DOMAIN s
            /\ s.successCount + s.failureCount = s.totalFiles

\* The number of failures a summary reports: failureCount in the summary of
\* batchOCR, errorCount in that of processLocalImageFolder.
ReportedFailures(s) ==
    IF "failureCount" \in DOMAIN s THEN s.failureCount ELSE s.errorCount

\* C25, amended: the same, with the failures counted in failureCount by
\* batchOCR and in errorCount by processLocalImageFolder.
C25_SummaryComplete ==
    DistinctRequestDone =>
        LET s == Get(summary)
        IN  /\ ~s.thrown
            /\ OneEntryPerFile(s)
            /\ s.totalFiles = Len(request.imageFiles)
            /\ s.successCount + ReportedFailures(s) = s.totalFiles
            /\ ReportedFailures(s) =
                   Cardinality({i \in 1..Len(request.imageFiles) :
                                   request.outcomes[i] # "ok"})

\* batchOCR has returned for two files with distinct names, one of which
\* failed.
C25_Witness ==
    /\ DistinctRequestDone
    /\ "failureCount" \in DOMAIN Get(summary)
    /\ Len(request.imageFiles) = 2
    /\ request.outcomes[1] = "ok"
    /\ request.outcomes[2] # "ok"

\* The jobs reported in results.failed.
FailedJobs == {failed[k].job : k \in 1..Len(failed)}

\* The attempts of job j so far that failed or timed out.
FailedAttempts(j) == {k \in 1..Len(attempts[j]) : attempts[j][k].kind # "returned"}

Components == {"left", "top", "width", "height"}

\* C27: coordinate round trip.  For a scale s with 0 < s <= 1, converting
\* a rectangle to display coordinates and back leaves every component
\* within 1 pixel of the original.
C27_RoundTripWithinOnePixel ==
    (IsSome(canvasInfo) /\ IsSome(converted.roundTrip)
        /\ Get(canvasInfo).scale[1] > 0
        /\ Get(canvasInfo).scale[1] <= Get(canvasInfo).scale[2])
    => \A c \in Components : Abs(Get(converted.roundTrip)[c] - rectangle[c]) <= 1

\* Every component of a rectangle is a finite number.
Finite(r) == \A c \in Components : r[c] \notin {Infinity, NaN}

\* C28: with scale 0 or without image metadata both conversions return
\* their input rectangle unchanged, and no conversion ever produces a
\* coordinate that is not finite.
C28_IdentityWithoutScale ==
    /\ (~IsSome(canvasInfo) \/ Get(canvasInfo).scale[1] = 0) =>
          /\ IsSome(converted.toDisplay) => Get(converted.toDisplay) = rectangle
          /\ IsSome(converted.toOriginal) => Get(converted.toOriginal) = rectangle
    /\ \A k \in DOMAIN converted : IsSome(converted[k]) => Finite(Get(converted[k]))

Malformed(bbox) ==
    \/ bbox.kind # "array"
    \/ Len(bbox.points) < 4
    \/ \E i \in 1..Len(bbox.points) : bbox.points[i].kind # "pair"

\* The raw items that carry a text.
HasText(item) == item.text # ""

\* C30: every raw item of a response yields exactly one normalized item,
\* whatever its region: an item whose region is missing or malformed gets
\* the placeholder rectangle, and the other items of the response get the
\* rectangle of their own region.
C30_NoItemLostForGeometry ==
    IsSome(normalized) =>
        LET items == SelectSeq(response, HasText)
        IN  /\ ~Get(normalized).thrown
            /\ Len(Get(normalized).words_result) = Len(items)
            /\ \A i \in 1..Len(items) :
                   Get(normalized).words_result[i].location =
                       IF Malformed(items[i].text_region)
                       THEN Placeholder
                       ELSE convertBboxToLocation(items[i].text_region).location

\* C31: the memory cache evicts the least recently used entry: when a call
\* removes an entry from the cache, the call inserted a key that was not
\* there into a full cache and the entry removed is the one whose last use
\* (a hit read or a write) is the oldest; writing a key that is already in
\* the cache removes nothing.
C31_LeastRecentlyUsedEvicted ==
    [][NextCache =>
         LET removed == MapKeys(cacheMap) \ MapKeys(cacheMap')
             inserted == MapKeys(cacheMap') \ MapKeys(cacheMap)
         IN  removed # {} =>
                 /\ inserted # {}
                 /\ Len(cacheMap) >= maxMemoryCache
                 /\ removed = {recency[1]}]_vars

\* A call that writes durable data of folder folderId: a folder save or an
\* annotation save.
WritesFolder(folderId) ==
    \/ \E anns \in {None} \cup {Some(o) : o \in AnnotationObjects} :
           saveFolderCached(folderId, anns)
    \/ \E anns \in AnnotationObjects \ {{}} : saveAnnotations(folderId, anns)

\* C32: a write to the durable data of a folder removes the entry of that
\* folder from the memory cache: right after the write the cache holds no
\* entry for its key, so that the next read goes to the store.
C32_WriteInvalidates ==
    [][\A folderId \in FolderIds :
           WritesFolder(folderId) => ~MapHas(cacheMap', CacheKey(folderId))]_vars

\* How often job j is in a list of jobs or of results.
TimesQueued(j) == Cardinality({i \in 1..Len(queue) : queue[i] = j})

TimesReported(j) ==
    Cardinality({i \in 1..Len(successful) : successful[i].job = j})
        + Cardinality({i \in 1..Len(failed) : failed[i].job = j})

\* The workers that have taken job j and have not reported it yet.
Holders(j) == {w \in Workers : workers[w].job = j /\ workers[w].pc \in {"running", "sleeping"}}

C34_PoolTerminates ==
    (taskStatus = "running") ~>
        (taskStatus = "completed" /\ \A w \in Workers : workers[w].pc = "exited")

\* The pool has finished after an attempt that returned, one that was
\* rejected and one that timed out.
C34_Witness ==
    /\ taskStatus = "completed"
    /\ \A w \in Workers : workers[w].pc = "exited"
    /\ \A kind \in {"returned", "rejected", "timeout"} :
           \E j \in Jobs : \E i \in 1..Len(attempts[j]) : attempts[j][i].kind = kind

\* The list without its k-th element.
RemoveAt(list, k) == SubSeq(list, 1, k - 1) \o SubSeq(list, k + 1, Len(list))

\* The step deletes, from the list of the current image, the annotation
\* with the given id, which is in that list.
DeletesPresent(annotationId) ==
    /\ \E i \in 1..MaxManual + 2, written \in BOOLEAN :
           /\ deleteClick(i, written)
           /\ ListOf(annotations, Get(domImg))[i].id = annotationId
    /\ \E k \in 1..Len(ListOf(annotations, CurrentFileName)) :
           ListOf(annotations, CurrentFileName)[k].id = annotationId

\* C35: deleting an annotation that is present removes exactly that one:
\* the list of the image gets shorter by one, the other annotations stay in
\* their order with their text, region and isManual, and the lists of the
\* other images are not changed.
C35_DeleteRemovesExactlyOne ==
    [][\A annotationId \in 0..(MaxClock + MaxManual + 2) :
           DeletesPresent(annotationId) =>
               LET old == ListOf(annotations, CurrentFileName)
                   new == ListOf(annotations', CurrentFileName)
               IN  /\ Len(new) = Len(old) - 1
                   /\ \E k \in 1..Len(old) :
                          old[k].id = annotationId /\ new = RemoveAt(old, k)
                   /\ \A img \in ImgSet \ {CurrentFileName} :
                          annotations'[img] = annotations[img]]_vars

\* Image img has edits of the user that are not in the durable store: its
\* list in the Map holds an annotation of the user the stored list lacks,
\* or lacks an annotation the stored list holds.
UnsavedEdits(img) ==
    LET list == ListOf(annotations, img)
        stored == StoredList(db, img)
    IN  \/ \E i \in 1..Len(list) :
              list[i].isManual /\ \A j \in 1..Len(stored) : stored[j] # list[i]
        \/ \E j \in 1..Len(stored) : \A i \in 1..Len(list) : list[i] # stored[j]

\* C36: whatever the interleaving of the user's edits with the saves they
\* start, when hasChanges is false and no save is in flight the durable
\* store holds the edits of every image: an edit made while a save is in
\* flight is not left unsaved and marked as saved once that save completes.
C36_SavedMeansStored ==
    (open /\ ~hasChanges /\ pending = <<>>) =>
        \A img \in ImgSet : ~UnsavedEdits(img)

\* C37: whatever the interleaving of next-image and previous-image
\* requests, a request made while the save awaited by an earlier one is
\* pending included, currentImageIndex names an image of the folder and the
\* annotations shown in the text list are those of that image.
C37_IndexNamesDisplayedImage ==
    open =>
        /\ IndexInRange
        /\ IsSome(domImg) => Get(domImg) = ImageNames[currentImageIndex]

\* The images getImageFiles would return from the chunks stored after the step.
ReadableAfter ==
    LET images == getImageFiles(imageChunks', FolderId, None)
    IN  {[name |-> images[i].name, dataURL |-> images[i].dataURL] : i \in 1..Len(images)}

\* C38: when a re-save of an image fails while its new chunks are written,
\* the payload stored for the image before the save is still stored
\* completely and readable: the old chunks are deleted only if the new ones
\* are written.  Checked for the first save that ends after the payload of
\* the image was stored.
C38_FailedResaveKeepsOldPayload ==
    [][(got.kind = "none"
          /\ \E p \in Savers, outcome \in AddOutcomes :
                addStep(p, outcome) /\ got'.kind = "addError")
        => [name |-> "a", dataURL |-> StoredImages[1].dataURL] \in ReadableAfter]_vars

\* C39: the cache is transparent: getFolderById(id) without images returns,
\* for a folder that is stored, the folder record with the annotations that
\* are in the durable store at the time of the call, whether the value comes
\* from the memory cache or from the store.
C39_CacheTransparent ==
    [][\A folderId \in FolderIds :
           (getFolderByIdCached(folderId, FALSE, TRUE) /\ IsSome(folderRecords[folderId]))
               => returned' = Some(FolderValue(folderId, Some(annotationRecords[folderId])))]_vars

\* The record of the store with the given id, if there is one.
StoredWithId(records, id) ==
    IF \E i \in 1..Len(records) : records[i].id = id
    THEN Some(records[CHOOSE i \in 1..Len(records) : records[i].id = id])
    ELSE None

\* The record has the id, display name, status, image list, OCR results and
\* annotations of the exported one.
SameFolder(restored, original) ==
    /\ restored.id = original.id
    /\ restored.folderName = original.folderName
    /\ restored.status = original.status
    /\ restored.imageFiles = original.imageFiles
    /\ restored.ocrResults = original.ocrResults
    /\ restored.annotations = original.annotations

\* C40: importing the exported document into the cleared store restores
\* every exported folder with the same id, display name, status, imageFiles,
\* ocrResults and annotations, and importData reports success for each.
C40_BackupRoundTrip ==
    [][(importData /\ folderStore = <<>>)
          => /\ Len(Get(importResults')) = Len(Get(exportedDoc))
             /\ \A i \in 1..Len(Get(exportedDoc)) :
                    /\ Get(importResults')[i].success
                    /\ LET restored == StoredWithId(folderStore', Get(exportedDoc)[i].id)
                       IN  IsSome(restored) /\ SameFolder(Get(restored), Get(exportedDoc)[i])]_vars

====
